---- MODULE Spec2Model ----
(***************************************************************************)
(* Model of the LiveSectional animation and reliability engine:            *)
(*   animation_controller.py  AnimationController, BaseEffect and variants *)
(*   reliability_manager.py   CircuitBreaker, FrameRateLimiter, SharedClock,*)
(*                            ReliabilityManager.safe_call                 *)
(* Spec is the controller with its two threads; SpecCB, SpecCBC, SpecClk,  *)
(* SpecFL, SpecEff and SpecComp exercise one component each on its own.    *)
(* Time is counted in frame periods (one unit = 1/target_fps seconds).     *)
(***************************************************************************)
EXTENDS Integers, Sequences, FiniteSets, TLC

VARIABLES
    wall,           \* time.time(), in frame periods
    shared_clock,   \* AnimationController.shared_clock (SharedClock fields)
    frame_limiter,  \* AnimationController.frame_limiter (FrameRateLimiter fields)
    effects,        \* AnimationController.effects: insertion-ordered dict, as a sequence of effects
    state,          \* AnimationController.state
    lock,           \* AnimationController.lock: "free" or the thread that holds it
    pc,             \* per thread: the stack of controller calls it is inside (<<>> = not in a call)
    current_time,   \* per thread: local current_time of update()
    led_calls,      \* calls made to led_controller by the most recent operation
    res,            \* the most recent operation: [op, arg, ret]
    cb,             \* a CircuitBreaker: [failure_count, last_failure_time, state]
    cb_res,         \* the most recent CircuitBreaker.call: what it did, and the run of failures so far
    manager,        \* ReliabilityManager.circuit_breakers and the CircuitBreaker objects made so far
    callers,        \* per calling thread: its position inside safe_call() and its locals
    clk_res,        \* the most recent SharedClock call, its reading, and the time the clock has run
    fl_res,         \* the most recent wait_for_next_frame(): when it was called and returned
    effect,         \* one effect object driven directly through BaseEffect's interface
    eff_res,        \* the most recent call on that effect and what it returned
    comp,           \* the most recent _combine_effects(): its input frames and its output
    lk,             \* the effect table and the lock, with every "with self.lock" block taken in steps
    health,         \* a HealthMonitor, and its most recent get_health_status() / should_restart()
    req,            \* one FAAAPIClient._make_request() call: its position and the attempts made
    cat,            \* the most recent compute_flight_category(): the observation and the result
    rend            \* one composited and rendered tick: its frames and the driver calls

\* the state of the components that are exercised on their own
morevars == <<lk, health, req, cat, rend>>
auxvars == <<manager, callers, clk_res, fl_res, effect, eff_res, comp, morevars>>

vars == <<wall, shared_clock, frame_limiter, effects, state, lock, pc,
          current_time, led_calls, res, cb, cb_res, auxvars>>

----------------------------------------------------------------------------
(* Bounds of the model *)

\* time.time() when the process starts
Epoch == 3
\* wall-clock horizon: the model stops advancing time after Epoch + Horizon
Horizon == 2
\* The render thread drives update(); the control thread calls everything else.
Threads == {"render", "control"}
EffectIds == {"a", "b"}

----------------------------------------------------------------------------
(* AnimationState and EffectPriority *)

STOPPED == "stopped"
RUNNING == "running"
PAUSED == "paused"
ERROR == "error"

CRITICAL == 1
HIGH == 2
MEDIUM == 3
LOW == 4

\* number of addressable pixels of the strip (led_controller.number)
NumPixels == 2
BLACK == <<0, 0, 0>>

----------------------------------------------------------------------------
(* SharedClock *)

SharedClockInit(now) == [start_time |-> now, paused |-> FALSE, pause_offset |-> 0]

get_time(c, now) ==
    IF c.paused THEN c.start_time + c.pause_offset
    ELSE now - c.start_time + c.pause_offset

ClockPause(c, now) ==
    IF ~c.paused THEN [c EXCEPT !.pause_offset = get_time(c, now), !.paused = TRUE]
    ELSE c

\* resume() that keeps the old start_time
ClockResume_keepstart(c, now) ==
    IF c.paused THEN [c EXCEPT !.paused = FALSE]
    ELSE c

ClockResume(c, now) ==
    IF c.paused THEN [c EXCEPT !.start_time = now, !.paused = FALSE]
    ELSE c

----------------------------------------------------------------------------
(* FrameRateLimiter *)

\* 1/target_fps, the unit of time
FrameTime == 1
\* max_frame_time = 0.1 s = 3 frame periods at 30 fps
MaxFrameTime == 3
\* frame_skip_count above which wait_for_next_frame raises
MaxFrameSkips == 10

FrameRateLimiterInit == [last_frame_time |-> 0, frame_skip_count |-> 0]

\* wait_for_next_frame() without its time.sleep()
wait_for_next_frame_nosleep(l, now) ==
    LET elapsed == now - l.last_frame_time
        skips == IF elapsed > MaxFrameTime THEN l.frame_skip_count + 1
                 ELSE l.frame_skip_count
    IN  IF elapsed > MaxFrameTime /\ skips > MaxFrameSkips
        THEN [limiter |-> [l EXCEPT !.frame_skip_count = skips],
              wall |-> now, raised |-> TRUE, ret |-> FALSE]
        ELSE [limiter |-> [last_frame_time |-> now, frame_skip_count |-> 0],
              wall |-> now, raised |-> FALSE, ret |-> TRUE]

\* Result: the limiter afterwards, the wall clock afterwards (the call sleeps),
\* and whether it raised "Excessive frame skipping".
wait_for_next_frame(l, now) ==
    LET elapsed == now - l.last_frame_time
        skips == IF elapsed > MaxFrameTime THEN l.frame_skip_count + 1
                 ELSE l.frame_skip_count
    IN  IF elapsed > MaxFrameTime /\ skips > MaxFrameSkips
        THEN [limiter |-> [l EXCEPT !.frame_skip_count = skips],
              wall |-> now, raised |-> TRUE, ret |-> FALSE]
        ELSE LET woke == IF elapsed < FrameTime THEN now + (FrameTime - elapsed) ELSE now
             IN  [limiter |-> [last_frame_time |-> woke, frame_skip_count |-> 0],
                  wall |-> woke, raised |-> FALSE, ret |-> TRUE]

----------------------------------------------------------------------------
(* CircuitBreaker *)

\* failure_threshold given to the constructor
FailureThreshold == 2
\* recovery_timeout given to the constructor, in units of the wall clock
RecoveryTimeout == 2

CircuitBreakerInit == [failure_count |-> 0, last_failure_time |-> 0, state |-> "CLOSED"]

\* call() without its fail-fast branch
cb_rejects_never(c, now) == FALSE

\* call(), the test at its head: an Open breaker whose recovery_timeout has not
\* passed raises Exception("Circuit breaker is OPEN") without calling func
cb_rejects(c, now) ==
    c.state = "OPEN" /\ ~(now - c.last_failure_time > RecoveryTimeout)

\* call(), the same test: an Open breaker whose recovery_timeout has passed
\* becomes Half-Open
cb_admit(c) == IF c.state = "OPEN" THEN [c EXCEPT !.state = "HALF_OPEN"] ELSE c

\* call() closing the breaker after a trial without zeroing failure_count
cb_on_success_keepcount(c) ==
    IF c.state = "HALF_OPEN" THEN [c EXCEPT !.state = "CLOSED"] ELSE c

\* call(), after func returned
cb_on_success(c) ==
    IF c.state = "HALF_OPEN" THEN [c EXCEPT !.state = "CLOSED", !.failure_count = 0]
    ELSE c

\* call(), the except branch, at time now
cb_on_failure(c, now) ==
    LET n == c.failure_count + 1
    IN  [failure_count |-> n, last_failure_time |-> now,
         state |-> IF n >= FailureThreshold THEN "OPEN" ELSE c.state]

\* CircuitBreaker.call(func) at time now, for a delegate that takes d units of
\* time and either returns (ok = TRUE) or raises an Exception.
\* result: "returned", "raised" (the delegate's exception) or "rejected"
\* (Exception("Circuit breaker is OPEN")); invoked: how often func was called;
\* trial: whether the call went through Half-Open.
call(c, now, ok, d) ==
    IF cb_rejects(c, now)
    THEN [cb |-> c, result |-> "rejected", invoked |-> 0, trial |-> FALSE, wall |-> now]
    ELSE LET c1 == cb_admit(c)
         IN  [cb |-> IF ok THEN cb_on_success(c1) ELSE cb_on_failure(c1, now + d),
              result |-> IF ok THEN "returned" ELSE "raised",
              invoked |-> 1, trial |-> c1.state = "HALF_OPEN", wall |-> now + d]

----------------------------------------------------------------------------
(* Effects: BaseEffect and its variants *)

\* BaseEffect.timeout (30 s in the source), in frame periods
EffectTimeout == 1
\* FadeEffect.fade_duration, in frame periods
FadeDuration == 2
\* HeatMapEffect.max_iterations
MaxIterations == 2
\* BlinkEffect.period = 1/blink_rate, in frame periods; duty_cycle is 0.5
BlinkPeriod == 2

PriorityOf(kind) ==
    CASE kind = "blink" -> HIGH
      [] kind = "weather" -> CRITICAL
      [] kind = "fade" -> MEDIUM
      [] kind = "heatmap" -> LOW

\* pixel_indices given to the constructor of each variant
PixelIndicesOf(kind) ==
    CASE kind = "blink" -> <<0, 1>>
      [] kind = "fade" -> <<1>>
      [] kind = "heatmap" -> <<0>>
      [] OTHER -> <<>>

\* BaseEffect.__init__ followed by the variant's __init__
NewEffect(id, kind) ==
    [effect_id |-> id, kind |-> kind, priority |-> PriorityOf(kind),
     state |-> STOPPED, start_time |-> 0, timeout |-> EffectTimeout,
     fade_duration |-> IF kind = "fade" THEN FadeDuration ELSE 0,
     max_iterations |-> IF kind = "heatmap" THEN MaxIterations ELSE 0,
     current_iteration |-> 0,
     pixel_indices |-> PixelIndicesOf(kind)]

EffectStart(e, now) == [e EXCEPT !.state = RUNNING, !.start_time = now]
EffectStop(e) == [e EXCEPT !.state = STOPPED]
EffectPause(e) == [e EXCEPT !.state = PAUSED]
EffectResume(e) == [e EXCEPT !.state = RUNNING]

is_timed_out(e, now) == now - e.start_time > e.timeout

is_complete(e, now) ==
    CASE e.kind = "fade" -> now - e.start_time >= e.fade_duration
      [] e.kind = "heatmap" -> e.current_iteration >= e.max_iterations
      [] OTHER -> is_timed_out(e, now)

NoFrame == [effect_id |-> "none"]

Frame(e, now, pixels, brightness) ==
    [effect_id |-> e.effect_id, timestamp |-> now, pixels |-> pixels,
     indices |-> e.pixel_indices, brightness |-> brightness]

\* int(x) of Python for a rational num/den with den > 0: truncation toward zero
Trunc(num, den) == IF num >= 0 THEN num \div den ELSE -((-num) \div den)

BlinkColor == <<255, 0, 0>>
FadeStartColor == <<0, 0, 255>>
FadeEndColor == <<0, 255, 0>>
\* HeatMapEffect.data, one sample in percent of the [0,1] range per pixel
HeatData == <<50>>

\* a blink that is on throughout the period
BlinkUpdate_alwayson(e, now) ==
    [eff |-> e,
     frame |-> Frame(e, now, [i \in 1..Len(e.pixel_indices) |-> BlinkColor], 100)]

\* BlinkEffect.update: on while cycle_position < duty_cycle (0.5)
BlinkUpdate(e, now) ==
    LET elapsed == now - e.start_time
        is_on == 2 * (elapsed % BlinkPeriod) < BlinkPeriod
        pixels == [i \in 1..Len(e.pixel_indices) |-> IF is_on THEN BlinkColor ELSE BLACK]
    IN  [eff |-> e, frame |-> Frame(e, now, pixels, 100)]

\* FadeEffect.update: progress clamped to 1, eased by t*t*(3-2t), t = elapsed/d
FadeUpdate(e, now) ==
    LET elapsed == now - e.start_time
        d == e.fade_duration
        t == IF elapsed > d THEN d ELSE elapsed        \* numerator of progress over d
        num == t * t * (3 * d - 2 * t)                 \* eased = num / d^3
        den == d * d * d
        chan(s, f) == Trunc(s * den + (f - s) * num, den)
        color == <<chan(FadeStartColor[1], FadeEndColor[1]),
                   chan(FadeStartColor[2], FadeEndColor[2]),
                   chan(FadeStartColor[3], FadeEndColor[3])>>
        pixels == [i \in 1..Len(e.pixel_indices) |-> color]
    IN  [eff |-> e, frame |-> Frame(e, now, pixels, 100)]

\* The blue -> green -> yellow -> red ramp of HeatMapEffect.update, value in percent
HeatColor(p) ==
    IF p < 25 THEN <<0, Trunc(255 * p * 4, 100), 255>>
    ELSE IF p < 50 THEN <<0, 255, Trunc(255 * (100 - (p - 25) * 4), 100)>>
    ELSE IF p < 75 THEN <<Trunc(255 * (p - 50) * 4, 100), 255, 0>>
    ELSE <<255, Trunc(255 * (100 - (p - 75) * 4), 100), 0>>

\* HeatMapEffect.update without its test of the iteration cap
HeatMapUpdate_nocap(e, now) ==
    [eff |-> [e EXCEPT !.current_iteration = @ + 1],
     frame |-> Frame(e, now, [i \in 1..Len(HeatData) |-> HeatColor(HeatData[i])], 100)]

HeatMapUpdate(e, now) ==
    IF e.current_iteration >= e.max_iterations
    THEN [eff |-> e, frame |-> NoFrame]
    ELSE [eff |-> [e EXCEPT !.current_iteration = @ + 1],
          frame |-> Frame(e, now, [i \in 1..Len(HeatData) |-> HeatColor(HeatData[i])], 100)]

\* WeatherEffect.update with the constructor's default pixel_indices (none), so
\* the frame has no pixels; phase, which only the pixel formulas read, is not kept
WeatherUpdate(e, now) ==
    [eff |-> e, frame |-> Frame(e, now, <<>>, 100)]

\* effect.update(current_time, clock) for an effect in any state
EffectUpdate(e, now) ==
    IF e.state # RUNNING THEN [eff |-> e, frame |-> NoFrame]
    ELSE CASE e.kind = "blink" -> BlinkUpdate(e, now)
           [] e.kind = "weather" -> WeatherUpdate(e, now)
           [] e.kind = "fade" -> FadeUpdate(e, now)
           [] e.kind = "heatmap" -> HeatMapUpdate(e, now)

----------------------------------------------------------------------------
(* HealthMonitor *)

\* HealthStatus
HEALTHY == "healthy"
DEGRADED == "degraded"
HEALTH_CRITICAL == "critical"
FAILED == "failed"

\* thresholds of HealthMonitor.__init__ (MB and percent) and the log size limit
\* of get_health_status (MB)
MemoryWarningMb == 200
MemoryCriticalMb == 400
CpuWarningPercent == 70
CpuCriticalPercent == 90
LogLimitMb == 50
\* heartbeat_timeout, metar_timeout, led_test_interval and max_history, scaled
HeartbeatTimeout == 1
MetarTimeout == 3
LedTestInterval == 2
MaxHistory == 2

\* HealthMonitor.__init__ at time now. collected counts the snapshots taken;
\* res is the most recent query: the status and should_restart() it returned,
\* and for each collect_metrics() call before it whether the LED probe ran
HealthMonitorInit(now) ==
    [last_heartbeat |-> now, last_metar_update |-> 0, led_last_test |-> 0,
     metrics_history |-> <<>>, collected |-> 0,
     res |-> [op |-> "init", status |-> HEALTHY, restart |-> FALSE, probed |-> <<>>]]

\* a history that is never trimmed
StoreInHistory_unbounded(hist, m) == Append(hist, m)

\* metrics_history.append(metrics); if len > max_history: pop(0)
StoreInHistory(hist, m) ==
    LET h == Append(hist, m)
    IN  IF Len(h) > MaxHistory THEN Tail(h) ELSE h

\* collect_metrics(led_controller) at time now. load: memory, cpu and log size
\* as read from the system; with_led: a led_controller was passed; probe_ok:
\* what test_led_responsiveness returns if it is run. n numbers the snapshots.
\* The fields no code reads afterwards (timestamp, disk_space_mb, frame_rate,
\* error_count) are not kept.
collect_metrics(h, now, load, with_led, probe_ok) ==
    LET probe == with_led /\ now - h.led_last_test > LedTestInterval
        metrics == [n |-> h.collected + 1,
                    main_loop_heartbeat |-> h.last_heartbeat,
                    memory_usage_mb |-> load.memory, cpu_usage_percent |-> load.cpu,
                    led_responsive |-> IF probe THEN probe_ok ELSE TRUE,
                    last_metar_update |-> h.last_metar_update,
                    log_file_size_mb |-> load.log]
    IN  [h EXCEPT !.led_last_test = IF probe THEN now ELSE @,
                  !.metrics_history = StoreInHistory(@, metrics),
                  !.collected = @ + 1]

\* the status of one snapshot at time now: the two "if" of get_health_status
StatusOf(m, now) ==
    IF \/ m.memory_usage_mb > MemoryCriticalMb
       \/ m.cpu_usage_percent > CpuCriticalPercent
       \/ now - m.main_loop_heartbeat > HeartbeatTimeout
       \/ ~m.led_responsive
    THEN HEALTH_CRITICAL
    ELSE IF \/ m.memory_usage_mb > MemoryWarningMb
            \/ m.cpu_usage_percent > CpuWarningPercent
            \/ now - m.last_metar_update > MetarTimeout
            \/ m.log_file_size_mb > LogLimitMb
         THEN DEGRADED
         ELSE HEALTHY

\* a status taken from the oldest snapshot of the history
get_health_status_oldest(h, now) ==
    IF h.metrics_history = <<>> THEN HEALTHY
    ELSE StatusOf(h.metrics_history[1], now)

\* get_health_status() at time now
get_health_status(h, now) ==
    IF h.metrics_history = <<>> THEN HEALTHY
    ELSE StatusOf(h.metrics_history[Len(h.metrics_history)], now)

\* should_restart() at time now
should_restart(h, now) == get_health_status(h, now) \in {HEALTH_CRITICAL, FAILED}

\* HealthMonitor.heartbeat() at time now
heartbeat(h, now) == [h EXCEPT !.last_heartbeat = now]

\* ReliabilityManager.check_health(led_controller) at time now: heartbeat(),
\* collect_metrics(led_controller), get_health_status(); res holds the status
\* it returns and what should_restart() answers right after it
check_health(h, now, load, with_led, probe_ok) ==
    LET h1 == collect_metrics(heartbeat(h, now), now, load, with_led, probe_ok)
    IN  [h1 EXCEPT !.res = [op |-> "check_health", status |-> get_health_status(h1, now),
                            restart |-> should_restart(h1, now), probed |-> <<>>]]

----------------------------------------------------------------------------
(* The effect table: a Python dict, which keeps insertion order *)

Ids(effs) == {effs[i].effect_id : i \in DOMAIN effs}
Has(effs, id) == id \in Ids(effs)
IndexOf(effs, id) == CHOOSE i \in DOMAIN effs : effs[i].effect_id = id
Lookup(effs, id) == effs[IndexOf(effs, id)]

\* effects[id] = e
DictSet(effs, id, e) ==
    IF Has(effs, id) THEN [effs EXCEPT ![IndexOf(effs, id)] = e]
    ELSE Append(effs, e)

\* del effects[id]
DictDel(effs, id) == SelectSeq(effs, LAMBDA e : e.effect_id # id)

----------------------------------------------------------------------------
(* FrameCompositor: AnimationController._combine_effects and _render_frame *)

PriorityOfFrame(effs, f) == Lookup(effs, f.effect_id).priority

\* list.sort(key=priority): stable, ascending
RECURSIVE SortFrames(_, _)
SortFrames(effs, frames) ==
    IF frames = <<>> THEN <<>>
    ELSE LET rest == SortFrames(effs, Tail(frames))
             f == Head(frames)
             before == SelectSeq(rest, LAMBDA g : PriorityOfFrame(effs, g) < PriorityOfFrame(effs, f))
             after == SelectSeq(rest, LAMBDA g : PriorityOfFrame(effs, g) >= PriorityOfFrame(effs, f))
         IN  before \o <<f>> \o after

\* a write that replaces the buffer value instead of blending into it
Blend_overwrite(c, p) == p

\* the fixed alpha = 0.5 blend of one pixel: int(c * 0.5 + p * 0.5) per channel
Blend(c, p) == <<(c[1] + p[1]) \div 2, (c[2] + p[2]) \div 2, (c[3] + p[3]) \div 2>>

\* the inner loop over frame.pixels, from the i-th pixel on
RECURSIVE ApplyFrame(_, _, _)
ApplyFrame(full, f, i) ==
    IF i > Len(f.pixels) THEN full
    ELSE IF i <= Len(f.indices) /\ f.indices[i] < NumPixels
         THEN ApplyFrame([full EXCEPT ![f.indices[i]] = Blend(@, f.pixels[i])], f, i + 1)
         ELSE ApplyFrame(full, f, i + 1)

RECURSIVE ApplyFrames(_, _)
ApplyFrames(full, frames) ==
    IF frames = <<>> THEN full
    ELSE ApplyFrames(ApplyFrame(full, Head(frames), 1), Tail(frames))

\* a compositor that hands on the frame of the highest-priority effect as it is
CombineEffects_partial(effs, frames) == SortFrames(effs, frames)[1]

\* _combine_effects for a non-empty list of frames, with a led_controller
CombineEffects(effs, frames) ==
    LET sorted == SortFrames(effs, frames)
        combined == sorted[1]
        full == ApplyFrames([i \in 0..(NumPixels - 1) |-> BLACK], sorted)
    IN  [effect_id |-> "combined", timestamp |-> combined.timestamp,
         pixels |-> [i \in 1..NumPixels |-> full[i - 1]],
         indices |-> [i \in 1..NumPixels |-> i - 1],
         brightness |-> combined.brightness]

\* _render_frame: the frame as sent (brightness applied) and the driver calls made
ScaleColor(c, b) == <<Trunc(c[1] * b, 100), Trunc(c[2] * b, 100), Trunc(c[3] * b, 100)>>

RenderedFrame(f) ==
    IF f.brightness # 100
    THEN [f EXCEPT !.pixels = [i \in DOMAIN f.pixels |-> ScaleColor(f.pixels[i], f.brightness)]]
    ELSE f

RenderCalls(f) ==
    [i \in 1..Len(f.indices) |->
        [call |-> "set_pixel_color", index |-> f.indices[i], color |-> f.pixels[i]]]
    \o <<[call |-> "show_pixels"]>>

\* the driver calls that may raise in a tick: none, the first set_pixel_color,
\* or show_pixels
Faults == {"none", "set_pixel_color", "show_pixels"}
\* what led_calls records after a driver call that raised
Raised == [call |-> "raised"]

\* the driver calls _render_frame(frame) makes up to and including the one
\* named by fault, which raises
DriverCalls(f, fault) ==
    LET calls == RenderCalls(RenderedFrame(f))
    IN  CASE fault = "set_pixel_color" -> <<calls[1], Raised>>
          [] fault = "show_pixels" -> calls \o <<Raised>>
          [] OTHER -> calls

\* _render_frame without its try/except: the driver's exception leaves it
RenderFrame_uncaught(f, fault) ==
    [calls |-> DriverCalls(f, fault), raised |-> fault # "none"]

\* _render_frame(frame): calls, the driver calls made; raised, whether an
\* exception leaves it (the except branch logs the driver's exception)
RenderFrame(f, fault) ==
    [calls |-> DriverCalls(f, fault), raised |-> FALSE]

\* update() that renders whether or not an effect produced a frame
RenderTick_always(effs, frames, fault) ==
    IF frames # <<>> THEN RenderFrame(CombineEffects(effs, frames), fault)
    ELSE [calls |-> <<[call |-> "show_pixels"]>>, raised |-> FALSE]

\* update(): "if active_effects:" combine and render
RenderTick(effs, frames, fault) ==
    IF frames # <<>> THEN RenderFrame(CombineEffects(effs, frames), fault)
    ELSE [calls |-> <<>>, raised |-> FALSE]

----------------------------------------------------------------------------
(* AnimationController: the bodies of the operations, as functions of the table *)

\* add_effect without its test for an id already present
add_effect_overwrite(effs, e) ==
    [effects |-> DictSet(effs, e.effect_id, e), ret |-> "True"]

add_effect(effs, e) ==
    IF Has(effs, e.effect_id) THEN [effects |-> effs, ret |-> "False"]
    ELSE [effects |-> DictSet(effs, e.effect_id, e), ret |-> "True"]

\* remove_effect without effect.stop()
remove_effect_nostop(effs, id) ==
    IF ~Has(effs, id) THEN [effects |-> effs, ret |-> "False", removed |-> NoFrame]
    ELSE [effects |-> DictDel(effs, id), ret |-> "True", removed |-> Lookup(effs, id)]

\* removed: the effect object as it leaves the table
remove_effect(effs, id) ==
    IF ~Has(effs, id) THEN [effects |-> effs, ret |-> "False", removed |-> NoFrame]
    ELSE [effects |-> DictDel(DictSet(effs, id, EffectStop(Lookup(effs, id))), id),
          ret |-> "True", removed |-> EffectStop(Lookup(effs, id))]

start_effect(effs, id, now) ==
    IF ~Has(effs, id) THEN [effects |-> effs, ret |-> "False"]
    ELSE [effects |-> DictSet(effs, id, EffectStart(Lookup(effs, id), now)), ret |-> "True"]

stop_effect(effs, id) ==
    IF ~Has(effs, id) THEN [effects |-> effs, ret |-> "False"]
    ELSE [effects |-> DictSet(effs, id, EffectStop(Lookup(effs, id))), ret |-> "True"]

stop_all_effects(effs) == [i \in DOMAIN effs |-> EffectStop(effs[i])]

\* One pass of the loop body of update() for one effect; raises says whether
\* effect.update throws in this tick.
\* the body of the loop without its completion check
TickEffect_nocheck(e, now, raises) ==
    IF e.state = RUNNING
    THEN IF raises THEN [eff |-> [e EXCEPT !.state = ERROR], frame |-> NoFrame]
         ELSE EffectUpdate(e, now)
    ELSE [eff |-> e, frame |-> NoFrame]

\* the body of the loop of update() for one effect: the update of a Running
\* effect inside try/except, then the completion check
TickEffect(e, now, raises) ==
    LET upd == IF e.state = RUNNING
               THEN IF raises THEN [eff |-> [e EXCEPT !.state = ERROR], frame |-> NoFrame]
                    ELSE EffectUpdate(e, now)
               ELSE [eff |-> e, frame |-> NoFrame]
    IN  [eff |-> IF is_complete(upd.eff, now) THEN EffectStop(upd.eff) ELSE upd.eff,
         frame |-> upd.frame]

\* The loop of update() without its try/except: the first effect that throws
\* ends the loop, so neither it nor the effects after it are handled
UpdateEffects_abort(effs, now, raising) ==
    LET first == IF \E i \in DOMAIN effs : effs[i].effect_id \in raising
                 THEN CHOOSE i \in DOMAIN effs :
                        /\ effs[i].effect_id \in raising
                        /\ \A j \in 1..(i - 1) : effs[j].effect_id \notin raising
                 ELSE Len(effs) + 1
        ticked == [i \in DOMAIN effs |-> TickEffect(effs[i], now, FALSE)]
    IN  [effects |-> [i \in DOMAIN effs |-> IF i < first THEN ticked[i].eff ELSE effs[i]],
         active_effects |-> <<>>]

\* The loop of update() over effects.values(): the table afterwards and active_effects
UpdateEffects(effs, now, raising) ==
    LET ticked == [i \in DOMAIN effs |-> TickEffect(effs[i], now, effs[i].effect_id \in raising)]
    IN  [effects |-> [i \in DOMAIN effs |-> ticked[i].eff],
         active_effects |-> SelectSeq([i \in DOMAIN effs |-> ticked[i].frame],
                                      LAMBDA f : f # NoFrame)]

----------------------------------------------------------------------------
(* Initial values of the components that are exercised on their own *)

\* the threads that call safe_call("api", func)
Callers == {"t1", "t2"}

\* circuit_breakers: the dict entry of the one name used, as an index into
\* objects (0 = no entry); objects: every CircuitBreaker constructed so far;
\* failures: per object, the delegate failures since its counter was last zeroed
ManagerInit == [circuit_breakers |-> 0, objects |-> <<>>, failures |-> <<>>]

\* breaker: the object get_circuit_breaker returned; trial: func was invoked
\* with the breaker Half-Open; count: failure_count as read by "+= 1"
CallerIdle == [pc |-> "idle", breaker |-> 0, trial |-> FALSE, count |-> 0]

\* number of pause/resume cycles the history counts up to
MaxCycles == 2

\* reading: the last value get_time() returned (0 = the logical time at
\* construction); ran: the real time that has passed while the clock was running;
\* ran_at_read: ran when reading was taken; idle: the real time that has passed
\* while it was paused; cycles: pauses that were ended by a resume
ClkResInit == [op |-> "init", reading |-> 0, ran |-> 0, ran_at_read |-> 0,
               idle |-> 0, cycles |-> 0]
\* called_at / returned_at: the wall clock when the last wait_for_next_frame()
\* was entered and left; prev_return: when the call before it returned (-1 =
\* there was none); stalls: the calls in a row, up to the last one, that found
\* the interval since the previous call above max_frame_time
FlResInit == [op |-> "init", called_at |-> 0, returned_at |-> -1, prev_return |-> -1,
              ret |-> FALSE, raised |-> FALSE, stalls |-> 0]
\* frame: whether the last update() returned a frame; frames: the frames
\* update() has returned since the object was constructed (counted up to
\* MaxIterations + 1); complete: is_complete(now) right after the last call;
\* iter_before: current_iteration when the last call was entered; now: the
\* time handed to the last call; pixels: the pixels of the frame it returned
EffResInit == [op |-> "init", frame |-> FALSE, frames |-> 0, complete |-> FALSE,
               iter_before |-> 0, now |-> 0, pixels |-> <<>>, at_pause |-> -1]
\* c1, c2: the colors the two frames of the last _combine_effects() wrote to
\* the pixel they share; first: the effect whose frame came first in the list;
\* order: the effect ids in the order the frames were applied; out: the
\* combined color of the shared pixel; alt: the same for the list reversed
CompInit == [op |-> "init", c1 |-> BLACK, c2 |-> BLACK, first |-> "a", order |-> <<>>,
             out |-> BLACK, alt |-> BLACK]

\* the threads that enter the effect table: the render loop, which calls
\* update(), and two threads that call the other table operations
LkThreads == {"render", "control", "web"}
\* pc: idle, acquire (blocked in "with self.lock"), body, release; op, arg: the
\* call; i: the position inside the body; seen: the keys of the table when the
\* body was entered; ret: the value to return
LkIdle == [pc |-> "idle", op |-> "none", arg |-> "", i |-> 0, seen |-> <<>>, ret |-> "None"]
\* effects: effect_id and state of every entry of self.effects; lock: "free"
\* or the thread that holds self.lock; th: the threads
LkInit == [effects |-> <<>>, lock |-> "free", th |-> [t \in LkThreads |-> LkIdle]]

\* pc: idle, attempt (about to call urlopen), sleep (in time.sleep before the
\* next attempt), returned, raised; attempt: the loop variable; outcomes: what
\* each urlopen call so far did; slept: the sum of the delays slept; result:
\* the exception raised or "return", with the status and body returned
ReqIdle == [pc |-> "idle", attempt |-> 0, outcomes |-> <<>>, slept |-> 0,
            result |-> [kind |-> "none", status |-> 0, body |-> ""]]

\* A field of the observation: present with a number, present with a text that
\* is not a number, present without text, or missing
Missing == [kind |-> "missing", value |-> 0]
Invalid == [kind |-> "invalid", value |-> 0]
Empty == [kind |-> "empty", value |-> 0]
Num(n) == [kind |-> "num", value |-> n]

\* metar: the METAR element handed to the last call (sky_condition layers in
\* document order, vert_vis_ft, visibility_statute_mi in tenths of a mile)
CatInit == [op |-> "init",
            metar |-> [layers |-> <<>>, vert_vis_ft |-> Missing, visibility |-> Missing],
            result |-> "NONE"]

\* frames: the active_effects of the tick; calls: the driver calls it made;
\* others: the driver calls of the same tick without the weather frame
RendInit == [op |-> "init", frames |-> <<>>, calls |-> <<>>, others |-> <<>>]

----------------------------------------------------------------------------
(* The state machine of the controller *)

\* The effects the callers construct and hand to add_effect
Catalog == {NewEffect("a", "blink"), NewEffect("a", "fade"), NewEffect("b", "heatmap")}

Call(op, arg, ret) == [op |-> op, arg |-> arg, ret |-> ret]
Idle(t) == pc[t] = <<>>
Top(t) == IF pc[t] = <<>> THEN "none" ELSE pc[t][Len(pc[t])]
LastWall == Epoch + Horizon

Init ==
    /\ wall = Epoch
    /\ shared_clock = SharedClockInit(Epoch)
    /\ frame_limiter = FrameRateLimiterInit
    /\ effects = <<>>
    /\ state = STOPPED
    /\ lock = "free"
    /\ pc = [t \in Threads |-> <<>>]
    /\ current_time = [t \in Threads |-> 0]
    /\ led_calls = <<>>
    /\ res = Call("init", "", "None")
    /\ cb = CircuitBreakerInit
    /\ cb_res = [result |-> "none", invoked |-> 0, trial |-> FALSE, streak |-> 0]
    /\ manager = ManagerInit
    /\ callers = [t \in Callers |-> CallerIdle]
    /\ clk_res = ClkResInit
    /\ fl_res = FlResInit
    /\ effect = NewEffect("e", "blink")
    /\ eff_res = EffResInit
    /\ comp = CompInit
    /\ lk = LkInit
    /\ health = HealthMonitorInit(Epoch)
    /\ req = ReqIdle
    /\ cat = CatInit
    /\ rend = RendInit

\* time passes
Tick ==
    /\ wall < LastWall
    /\ wall' = wall + 1
    /\ UNCHANGED <<shared_clock, frame_limiter, effects, state, lock, pc, current_time, led_calls, res, cb, cb_res, auxvars>>

\* An operation that runs wholly inside "with self.lock" and touches only the
\* table: effs is the table afterwards, result what res records of the call
TableOp(t, effs, result) ==
    /\ Idle(t)
    /\ lock = "free"
    /\ effects' = effs
    /\ res' = result
    /\ led_calls' = <<>>
    /\ UNCHANGED <<wall, shared_clock, frame_limiter, state, lock, pc, current_time, cb, cb_res, auxvars>>

AddEffect(t, e) ==
    LET r == add_effect(effects, e)
    IN  TableOp(t, r.effects, Call("add_effect", e.effect_id, r.ret))

\* res.removed: the effect object as it leaves the table
RemoveEffect(t, id) ==
    LET r == remove_effect(effects, id)
    IN  TableOp(t, r.effects, [op |-> "remove_effect", arg |-> id, ret |-> r.ret,
                               removed |-> r.removed])

StartEffect(t, id) ==
    LET r == start_effect(effects, id, get_time(shared_clock, wall))
    IN  TableOp(t, r.effects, Call("start_effect", id, r.ret))

StopEffect(t, id) ==
    LET r == stop_effect(effects, id)
    IN  TableOp(t, r.effects, Call("stop_effect", id, r.ret))

\* effect.pause() / effect.resume(), called on a registered effect by the code
\* that created it; BaseEffect takes no lock
EffectOp(t, op, id, e) ==
    /\ Idle(t)
    /\ Has(effects, id)
    /\ effects' = DictSet(effects, id, e)
    /\ res' = Call(op, id, "None")
    /\ led_calls' = <<>>
    /\ UNCHANGED <<wall, shared_clock, frame_limiter, state, lock, pc, current_time, cb, cb_res, auxvars>>

PauseEffect(t, id) == EffectOp(t, "pause", id, EffectPause(Lookup(effects, id)))
ResumeEffect(t, id) == EffectOp(t, "resume", id, EffectResume(Lookup(effects, id)))

StartAnimation(t) ==
    /\ Idle(t)
    /\ lock = "free"
    /\ state' = RUNNING
    /\ shared_clock' = ClockResume(shared_clock, wall)
    /\ res' = Call("start_animation", "", "None")
    /\ led_calls' = <<>>
    /\ UNCHANGED <<wall, frame_limiter, effects, lock, pc, current_time,
                   cb, cb_res, auxvars>>

\* stop_animation(): takes self.lock, sets the state, then calls
\* stop_all_effects(), which takes self.lock again (threading.Lock is not reentrant)
StopAnimation(t) ==
    /\ Idle(t)
    /\ lock = "free"
    /\ lock' = t
    /\ state' = STOPPED
    /\ pc' = [pc EXCEPT ![t] = <<"stop_animation", "stop_all_effects">>]
    /\ res' = Call("stop_animation", "", "pending")
    /\ led_calls' = <<>>
    /\ UNCHANGED <<wall, shared_clock, frame_limiter, effects, current_time,
                   cb, cb_res, auxvars>>

\* emergency_shutdown(): logs, then calls stop_animation()
EmergencyShutdown(t) ==
    /\ Idle(t)
    /\ lock = "free"
    /\ lock' = t
    /\ state' = STOPPED
    /\ pc' = [pc EXCEPT ![t] = <<"emergency_shutdown", "stop_animation", "stop_all_effects">>]
    /\ res' = Call("emergency_shutdown", "", "pending")
    /\ led_calls' = <<>>
    /\ UNCHANGED <<wall, shared_clock, frame_limiter, effects, current_time,
                   cb, cb_res, auxvars>>

\* stop_all_effects(), called directly or from stop_animation(): runs once
\* self.lock can be acquired, then control returns to the caller, which for
\* stop_animation() pauses the clock and leaves its own "with self.lock", and
\* for emergency_shutdown() goes on to led_controller.clear().
StopAllEffects(t) ==
    /\ Idle(t) \/ Top(t) = "stop_all_effects"
    /\ lock = "free"
    /\ effects' = stop_all_effects(effects)
    /\ pc' = [pc EXCEPT ![t] = <<>>]
    /\ lock' = "free"
    /\ shared_clock' = IF Idle(t) THEN shared_clock ELSE ClockPause(shared_clock, wall)
    /\ led_calls' = IF ~Idle(t) /\ pc[t][1] = "emergency_shutdown"
                    THEN <<[call |-> "clear"]>> ELSE <<>>
    /\ res' = Call(IF Idle(t) THEN "stop_all_effects" ELSE pc[t][1], "", "None")
    /\ UNCHANGED <<wall, frame_limiter, state, current_time, cb, cb_res, auxvars>>

\* update() without its first test
NotRunning_skipped(st) == FALSE

\* update(), its first test
NotRunning(st) == st # RUNNING

\* update(), up to "with self.lock": the state check, the frame limiter, the clock
UpdateBegin(t) ==
    /\ Idle(t)
    /\ led_calls' = <<>>
    /\ IF NotRunning(state)
       THEN /\ res' = Call("update", "", "False")
            /\ UNCHANGED <<wall, frame_limiter, pc, current_time>>
       ELSE LET w == wait_for_next_frame(frame_limiter, wall)
            IN  /\ w.wall <= LastWall
                /\ frame_limiter' = w.limiter
                /\ wall' = w.wall
                /\ IF w.raised
                   THEN /\ res' = Call("update", "", "raise")
                        /\ UNCHANGED <<pc, current_time>>
                   ELSE /\ res' = Call("update", "", "pending")
                        /\ pc' = [pc EXCEPT ![t] = <<"update">>]
                        /\ current_time' = [current_time EXCEPT ![t] = get_time(shared_clock, w.wall)]
    /\ UNCHANGED <<shared_clock, effects, state, lock, cb, cb_res, auxvars>>

\* update(), from "with self.lock" on: the loop over the effects, the compositor,
\* the render. raising: the effects whose update throws. The frame statistics of
\* _update_performance_metrics (frame_count, current_fps), which nothing but the
\* log and get_status reads, are left out of the state. fault: the driver call
\* that raises while the frame is rendered. An exception that left the with
\* block would release the lock and leave update().
UpdateTick(t, raising, fault) ==
    /\ Top(t) = "update"
    /\ lock = "free"
    /\ raising \subseteq {effects[i].effect_id : i \in {j \in DOMAIN effects : effects[j].state = RUNNING}}
    /\ LET u == UpdateEffects(effects, current_time[t], raising)
           r == RenderTick(u.effects, u.active_effects, fault)
       IN  /\ fault # "none" => u.active_effects # <<>>
           /\ effects' = u.effects
           /\ led_calls' = r.calls
           /\ res' = Call("update", "", IF r.raised THEN "raised" ELSE "True")
    /\ pc' = [pc EXCEPT ![t] = <<>>]
    /\ UNCHANGED <<wall, shared_clock, frame_limiter, state, lock, current_time, cb, cb_res, auxvars>>

NextCtl ==
    \/ Tick
    \/ \E e \in Catalog : AddEffect("control", e)
    \/ \E id \in EffectIds : RemoveEffect("control", id)
    \/ \E id \in EffectIds : StartEffect("control", id)
    \/ \E id \in EffectIds : StopEffect("control", id)
    \/ \E id \in EffectIds : PauseEffect("control", id)
    \/ \E id \in EffectIds : ResumeEffect("control", id)
    \/ StartAnimation("control")
    \/ StopAnimation("control")
    \/ EmergencyShutdown("control")
    \/ StopAllEffects("control")
    \/ UpdateBegin("render")
    \/ \E raising \in SUBSET EffectIds, fault \in Faults : UpdateTick("render", raising, fault)

Spec == Init /\ [][NextCtl]_vars

----------------------------------------------------------------------------
(* The state machine of one CircuitBreaker used by one caller at a time *)

\* wall-clock horizon of the breaker's runs
CbHorizon == 7
\* the model makes no failing call once failure_count has reached this
MaxFailures == 4

TickCB ==
    /\ wall < Epoch + CbHorizon
    /\ wall' = wall + 1
    /\ UNCHANGED <<shared_clock, frame_limiter, effects, state, lock, pc, current_time, led_calls, res, cb, cb_res, auxvars>>

\* breaker.call(func). cb_res also keeps streak, the number of delegate
\* invocations in a row that raised.
CbCall(ok, d) ==
    LET r == call(cb, wall, ok, d)
    IN  /\ r.wall <= Epoch + CbHorizon
        /\ r.cb.failure_count <= MaxFailures
        /\ cb' = r.cb
        /\ wall' = r.wall
        /\ cb_res' = [result |-> r.result, invoked |-> r.invoked, trial |-> r.trial,
                      streak |-> CASE r.result = "raised" -> cb_res.streak + 1
                                   [] r.result = "returned" -> 0
                                   [] OTHER -> cb_res.streak]
        /\ UNCHANGED <<shared_clock, frame_limiter, effects, state, lock, pc, current_time, led_calls, res, auxvars>>

NextCB ==
    \/ TickCB
    \/ \E ok \in BOOLEAN, d \in 0..1 : CbCall(ok, d)

SpecCB == Init /\ [][NextCB]_vars

----------------------------------------------------------------------------
(* ReliabilityManager.safe_call from several threads: get_circuit_breaker and *)
(* CircuitBreaker.call take no lock, so the threads interleave between their  *)
(* steps. The steps are cut at the calls a thread makes (CircuitBreaker(),    *)
(* func()) and inside "failure_count += 1" (a read, then a write).            *)

\* wall-clock horizon of the concurrent runs
CbcHorizon == 3

BreakerOf(t) == manager.objects[callers[t].breaker]

CbcUnchanged ==
    UNCHANGED <<shared_clock, frame_limiter, effects, state, lock, pc, current_time,
                led_calls, res, cb, cb_res, clk_res, fl_res, effect, eff_res, comp,
                morevars>>

TickCBC ==
    /\ wall < Epoch + CbcHorizon
    /\ wall' = wall + 1
    /\ UNCHANGED <<manager, callers>>
    /\ CbcUnchanged

\* get_circuit_breaker: "if name not in self.circuit_breakers"
GetBreakerTest(t) ==
    /\ callers[t].pc = "idle"
    /\ callers' = [callers EXCEPT ![t] =
                      IF manager.circuit_breakers = 0
                      THEN [CallerIdle EXCEPT !.pc = "create"]
                      ELSE [CallerIdle EXCEPT !.pc = "call", !.breaker = manager.circuit_breakers]]
    /\ UNCHANGED <<wall, manager>>
    /\ CbcUnchanged

\* get_circuit_breaker: "self.circuit_breakers[name] = CircuitBreaker()" and the return
GetBreakerCreate(t) ==
    /\ callers[t].pc = "create"
    /\ manager' = [circuit_breakers |-> Len(manager.objects) + 1,
                   objects |-> Append(manager.objects, CircuitBreakerInit),
                   failures |-> Append(manager.failures, 0)]
    /\ callers' = [callers EXCEPT ![t].pc = "call", ![t].breaker = Len(manager.objects) + 1]
    /\ UNCHANGED wall
    /\ CbcUnchanged

\* call(): the test at its head, up to the invocation of func
CallEnter(t) ==
    /\ callers[t].pc = "call"
    /\ IF cb_rejects(BreakerOf(t), wall)
       THEN /\ callers' = [callers EXCEPT ![t] = CallerIdle]
            /\ UNCHANGED manager
       ELSE /\ manager' = [manager EXCEPT !.objects[callers[t].breaker] = cb_admit(@)]
            /\ callers' = [callers EXCEPT ![t].pc = "func",
                                          ![t].trial = cb_admit(BreakerOf(t)).state = "HALF_OPEN"]
    /\ UNCHANGED wall
    /\ CbcUnchanged

\* func returns: "if self.state == HALF_OPEN: ..." and the return
FuncReturns(t) ==
    /\ callers[t].pc = "func"
    /\ manager' = [manager EXCEPT
                      !.objects[callers[t].breaker] = cb_on_success(@),
                      !.failures[callers[t].breaker] =
                          IF BreakerOf(t).state = "HALF_OPEN" THEN 0 ELSE @]
    /\ callers' = [callers EXCEPT ![t] = CallerIdle]
    /\ UNCHANGED wall
    /\ CbcUnchanged

\* func raises: the except branch up to the read of failure_count
FuncRaises(t) ==
    /\ callers[t].pc = "func"
    /\ manager.failures[callers[t].breaker] < MaxFailures
    /\ manager' = [manager EXCEPT !.failures[callers[t].breaker] = @ + 1]
    /\ callers' = [callers EXCEPT ![t].pc = "except", ![t].count = BreakerOf(t).failure_count]
    /\ UNCHANGED wall
    /\ CbcUnchanged

\* the except branch from the write of failure_count on
ExceptStore(t) ==
    /\ callers[t].pc = "except"
    /\ manager' = [manager EXCEPT !.objects[callers[t].breaker] =
                      cb_on_failure([@ EXCEPT !.failure_count = callers[t].count], wall)]
    /\ callers' = [callers EXCEPT ![t] = CallerIdle]
    /\ UNCHANGED wall
    /\ CbcUnchanged

NextCBC ==
    \/ TickCBC
    \/ \E t \in Callers :
         \/ GetBreakerTest(t)
         \/ GetBreakerCreate(t)
         \/ CallEnter(t)
         \/ FuncReturns(t)
         \/ FuncRaises(t)
         \/ ExceptStore(t)

SpecCBC == Init /\ [][NextCBC]_vars


----------------------------------------------------------------------------
(* A SharedClock driven through pause(), resume() and get_time() *)

\* wall-clock horizon of the clock's runs
ClkHorizon == 4

ClkUnchanged ==
    UNCHANGED <<frame_limiter, effects, state, lock, pc, current_time, led_calls, res,
                cb, cb_res, manager, callers, fl_res, effect, eff_res, comp, morevars>>

TickClk ==
    /\ wall < Epoch + ClkHorizon
    /\ wall' = wall + 1
    /\ clk_res' = IF shared_clock.paused THEN [clk_res EXCEPT !.idle = @ + 1]
                  ELSE [clk_res EXCEPT !.ran = @ + 1]
    /\ UNCHANGED shared_clock
    /\ ClkUnchanged

ClkGetTime ==
    /\ clk_res' = [clk_res EXCEPT !.op = "get_time",
                                  !.reading = get_time(shared_clock, wall),
                                  !.ran_at_read = clk_res.ran]
    /\ UNCHANGED <<wall, shared_clock>>
    /\ ClkUnchanged

ClkPause ==
    /\ shared_clock' = ClockPause(shared_clock, wall)
    /\ clk_res' = [clk_res EXCEPT !.op = "pause"]
    /\ UNCHANGED wall
    /\ ClkUnchanged

ClkResume ==
    /\ shared_clock' = ClockResume(shared_clock, wall)
    /\ clk_res' = [clk_res EXCEPT !.op = "resume",
                                  !.cycles = IF shared_clock.paused /\ @ < MaxCycles
                                             THEN @ + 1 ELSE @]
    /\ UNCHANGED wall
    /\ ClkUnchanged

NextClk == TickClk \/ ClkGetTime \/ ClkPause \/ ClkResume

SpecClk == Init /\ [][NextClk]_vars

----------------------------------------------------------------------------
(* A FrameRateLimiter driven by a loop that calls wait_for_next_frame() *)

\* wall-clock horizon of the limiter's runs
FlHorizon == 45

FlUnchanged ==
    UNCHANGED <<shared_clock, effects, state, lock, pc, current_time, led_calls, res,
                cb, cb_res, manager, callers, clk_res, effect, eff_res, comp, morevars>>

TickFL ==
    /\ wall < Epoch + FlHorizon
    /\ wall' = wall + 1
    /\ UNCHANGED <<frame_limiter, fl_res>>
    /\ FlUnchanged

WaitForNextFrame ==
    LET w == wait_for_next_frame(frame_limiter, wall)
    IN  /\ w.wall <= Epoch + FlHorizon
        /\ frame_limiter' = w.limiter
        /\ wall' = w.wall
        /\ fl_res' = [op |-> "wait_for_next_frame", called_at |-> wall,
                      returned_at |-> IF w.raised THEN fl_res.returned_at ELSE w.wall,
                      prev_return |-> IF w.raised THEN fl_res.prev_return
                                      ELSE fl_res.returned_at,
                      ret |-> w.ret, raised |-> w.raised,
                      stalls |-> IF wall - frame_limiter.last_frame_time > MaxFrameTime
                                 THEN fl_res.stalls + 1 ELSE 0]
        /\ FlUnchanged

NextFL == TickFL \/ WaitForNextFrame

SpecFL == Init /\ [][NextFL]_vars

----------------------------------------------------------------------------
(* One effect object driven directly: start, stop, pause, resume, update and *)
(* is_complete called by its owner, now being the time handed to the calls   *)

\* horizon of the time handed to the effect
EffHorizon == 3
EffectKinds == {"blink", "weather", "fade", "heatmap"}

EffUnchanged ==
    UNCHANGED <<shared_clock, frame_limiter, effects, state, lock, pc, current_time,
                led_calls, res, cb, cb_res, manager, callers, clk_res, fl_res, comp,
                morevars>>

TickEff ==
    /\ wall < Epoch + EffHorizon
    /\ wall' = wall + 1
    /\ UNCHANGED <<effect, eff_res>>
    /\ EffUnchanged

\* what eff_res records of a call that is not update()
EffCalled(op, e) ==
    [eff_res EXCEPT !.op = op, !.frame = FALSE, !.complete = is_complete(e, wall),
                    !.iter_before = effect.current_iteration, !.now = wall,
                    !.pixels = <<>>]

\* a new effect object of one of the variants
EffConstruct(kind) ==
    /\ effect' = NewEffect("e", kind)
    /\ eff_res' = [EffResInit EXCEPT !.op = "construct"]
    /\ UNCHANGED wall
    /\ EffUnchanged

EffStart ==
    /\ effect' = EffectStart(effect, wall)
    /\ eff_res' = EffCalled("start", effect')
    /\ UNCHANGED wall
    /\ EffUnchanged

EffStop ==
    /\ effect' = EffectStop(effect)
    /\ eff_res' = EffCalled("stop", effect')
    /\ UNCHANGED wall
    /\ EffUnchanged

\* at_pause: the elapsed time (now - start_time) of a Running effect at the
\* moment pause() is called on it; -1 when the effect paused was not Running
EffPause ==
    /\ effect' = EffectPause(effect)
    /\ eff_res' = [EffCalled("pause", effect') EXCEPT !.at_pause =
                      IF effect.state = RUNNING THEN wall - effect.start_time
                      ELSE IF effect.state = PAUSED THEN @ ELSE -1]
    /\ UNCHANGED wall
    /\ EffUnchanged

EffResume ==
    /\ effect' = EffectResume(effect)
    /\ eff_res' = EffCalled("resume", effect')
    /\ UNCHANGED wall
    /\ EffUnchanged

\* how far the time handed to update() may lie behind the clock: the caller
\* reads it before the call (update() of the controller reads current_time
\* before it takes the lock), so a start() can come in between
MaxLag == 1

\* effect.update(now, clock)
EffUpdate(now) ==
    LET u == EffectUpdate(effect, now)
    IN  /\ effect' = u.eff
        /\ eff_res' = [op |-> "update", frame |-> u.frame # NoFrame,
                       frames |-> IF u.frame # NoFrame /\ eff_res.frames <= MaxIterations
                                  THEN eff_res.frames + 1 ELSE eff_res.frames,
                       complete |-> is_complete(u.eff, now),
                       iter_before |-> effect.current_iteration,
                       now |-> now,
                       pixels |-> IF u.frame # NoFrame THEN u.frame.pixels ELSE <<>>,
                       at_pause |-> eff_res.at_pause]
        /\ UNCHANGED wall
        /\ EffUnchanged

NextEff ==
    \/ TickEff
    \/ \E kind \in EffectKinds : EffConstruct(kind)
    \/ EffStart
    \/ EffStop
    \/ EffPause
    \/ EffResume
    \/ \E now \in (wall - MaxLag)..wall : EffUpdate(now)

SpecEff == Init /\ [][NextEff]_vars

----------------------------------------------------------------------------
(* _combine_effects applied to the frames of two effects that share pixel 0:  *)
(* "a", a High-priority blink on pixels 0 and 1, and "b", a Low-priority heat *)
(* map on pixel 0                                                             *)

\* the colors the two frames may carry
Colors == {BLACK, <<1, 0, 0>>, <<100, 0, 0>>, <<150, 0, 0>>, <<255, 0, 0>>,
           <<0, 255, 0>>, <<0, 0, 255>>, <<255, 255, 255>>}

CompUnchanged ==
    UNCHANGED <<wall, shared_clock, frame_limiter, effects, state, lock, pc, current_time,
                led_calls, res, cb, cb_res, manager, callers, clk_res, fl_res, effect,
                eff_res, morevars>>

\* c1: the color of a's frame, c2: the color of b's frame, first: whose frame
\* heads the list handed to _combine_effects
Combine(c1, c2, first) ==
    LET ea == NewEffect("a", "blink")
        eb == NewEffect("b", "heatmap")
        effs == <<ea, eb>>
        fa == Frame(ea, wall, [i \in 1..Len(ea.pixel_indices) |-> c1], 100)
        fb == Frame(eb, wall, [i \in 1..Len(eb.pixel_indices) |-> c2], 100)
        frames == IF first = "a" THEN <<fa, fb>> ELSE <<fb, fa>>
        reversed == IF first = "a" THEN <<fb, fa>> ELSE <<fa, fb>>
        sorted == SortFrames(effs, frames)
    IN  /\ comp' = [op |-> "combine", c1 |-> c1, c2 |-> c2, first |-> first,
                    order |-> [i \in DOMAIN sorted |-> sorted[i].effect_id],
                    out |-> CombineEffects(effs, frames).pixels[1],
                    alt |-> CombineEffects(effs, reversed).pixels[1]]
        /\ CompUnchanged

NextComp == \E c1, c2 \in Colors, first \in {"a", "b"} : Combine(c1, c2, first)

SpecComp == Init /\ [][NextComp]_vars

----------------------------------------------------------------------------
(* The effect table under self.lock: every "with self.lock" block is entered, *)
(* run statement by statement and left in separate steps, so that the blocks  *)
(* of different threads can interleave wherever the lock lets them            *)

\* the operations the control threads call
LkOps == {"add_effect", "remove_effect", "start_effect", "stop_effect", "get_status"}

LkUnchanged ==
    UNCHANGED <<wall, shared_clock, frame_limiter, effects, state, lock, pc, current_time,
                led_calls, res, cb, cb_res, manager, callers, clk_res, fl_res, effect,
                eff_res, comp, health, req, cat, rend>>

\* a lock that lets every thread in
LockFree_ignored(l) == TRUE

\* threading.Lock.acquire() returns only while no thread holds the lock
LockFree(l) == l = "free"

LkKeys(effs) == [i \in DOMAIN effs |-> effs[i].effect_id]
LkSetState(effs, id, s) == [i \in DOMAIN effs |->
                              IF effs[i].effect_id = id THEN [effs[i] EXCEPT !.state = s]
                              ELSE effs[i]]

\* a thread calls an operation and reaches its "with self.lock"
LkCall(t, op, id) ==
    /\ lk.th[t].pc = "idle"
    /\ (t = "render") = (op = "update")
    /\ (op \in {"update", "get_status"}) = (id = "")
    /\ lk' = [lk EXCEPT !.th[t] = [LkIdle EXCEPT !.pc = "acquire", !.op = op, !.arg = id]]
    /\ LkUnchanged

\* "with self.lock": __enter__
LkAcquire(t) ==
    /\ lk.th[t].pc = "acquire"
    /\ LockFree(lk.lock)
    /\ lk' = [lk EXCEPT !.lock = t, !.th[t].pc = "body", !.th[t].i = 1,
                        !.th[t].seen = LkKeys(lk.effects)]
    /\ LkUnchanged

\* one statement of the body of add_effect, remove_effect, start_effect,
\* stop_effect or get_status. remove_effect takes two: effect.stop(), then del.
LkTableStep(t) ==
    LET me == lk.th[t]
        id == me.arg
        leave(effs, ret) == lk' = [lk EXCEPT !.effects = effs, !.th[t].pc = "release",
                                             !.th[t].ret = ret]
    IN  /\ me.pc = "body"
        /\ me.op \in LkOps
        /\ CASE me.op = "get_status" ->
                    leave(lk.effects, "status")
             [] me.op = "remove_effect" /\ me.i = 2 ->
                    leave(DictDel(lk.effects, id), "True")
             [] ~Has(lk.effects, id) ->
                    IF me.op = "add_effect"
                    THEN leave(Append(lk.effects, [effect_id |-> id, state |-> STOPPED]), "True")
                    ELSE leave(lk.effects, "False")
             [] me.op = "add_effect" -> leave(lk.effects, "False")
             [] me.op = "start_effect" -> leave(LkSetState(lk.effects, id, RUNNING), "True")
             [] me.op = "stop_effect" -> leave(LkSetState(lk.effects, id, STOPPED), "True")
             [] me.op = "remove_effect" ->
                    lk' = [lk EXCEPT !.effects = LkSetState(lk.effects, id, STOPPED),
                                     !.th[t].i = 2]
        /\ LkUnchanged

\* update(): one round of "for effect in self.effects.values()", or the end of
\* the loop. done: is_complete(current_time) of the effect of this round.
LkUpdateStep(t, done) ==
    LET me == lk.th[t]
    IN  /\ me.pc = "body"
        /\ me.op = "update"
        /\ IF me.i > Len(lk.effects)
           THEN /\ ~done
                /\ lk' = [lk EXCEPT !.th[t].pc = "release", !.th[t].ret = "True"]
           ELSE lk' = [lk EXCEPT !.effects[me.i].state = IF done THEN STOPPED ELSE @,
                                 !.th[t].i = me.i + 1]
        /\ LkUnchanged

\* "with self.lock": __exit__, and the return
LkRelease(t) ==
    /\ lk.th[t].pc = "release"
    /\ lk' = [lk EXCEPT !.lock = "free", !.th[t] = LkIdle]
    /\ LkUnchanged

NextLk ==
    \/ \E t \in LkThreads, op \in LkOps \cup {"update"}, id \in EffectIds \cup {""} : LkCall(t, op, id)
    \/ \E t \in LkThreads : LkAcquire(t)
    \/ \E t \in LkThreads : LkTableStep(t)
    \/ \E t \in LkThreads, done \in BOOLEAN : LkUpdateStep(t, done)
    \/ \E t \in LkThreads : LkRelease(t)

SpecLock == Init /\ [][NextLk]_vars

----------------------------------------------------------------------------
(* A HealthMonitor driven by its owner: heartbeat(), update_metar(),     *)
(* collect_metrics(), get_health_status() and should_restart()           *)

HealthHorizon == 2
\* what collect_metrics reads from the system: below the warning threshold,
\* between the thresholds and above the critical one
Loads ==
    {[memory |-> 100, cpu |-> 50, log |-> 0], [memory |-> 300, cpu |-> 50, log |-> 0],
     [memory |-> 500, cpu |-> 50, log |-> 0], [memory |-> 100, cpu |-> 80, log |-> 0],
     [memory |-> 100, cpu |-> 95, log |-> 0], [memory |-> 100, cpu |-> 50, log |-> 60]}

HealthUnchanged ==
    UNCHANGED <<shared_clock, frame_limiter, effects, state, lock, pc, current_time,
                led_calls, res, cb, cb_res, manager, callers, clk_res, fl_res, effect,
                eff_res, comp, lk, req, cat, rend>>

TickHealth ==
    /\ wall < Epoch + HealthHorizon
    /\ wall' = wall + 1
    /\ UNCHANGED health
    /\ HealthUnchanged

HmHeartbeat ==
    /\ health' = heartbeat(health, wall)
    /\ UNCHANGED wall
    /\ HealthUnchanged

\* One use of a freshly constructed monitor: at most two collect_metrics()
\* calls and then should_restart(), which calls get_health_status(), at time
\* now. An event is one collect_metrics() call: at, when it is made; heartbeat,
\* update_metar: whether heartbeat() / update_metar() is called just before it.
Events ==
    [at : Epoch..(Epoch + HealthHorizon), heartbeat : BOOLEAN, update_metar : BOOLEAN,
     load : Loads, with_led : BOOLEAN, probe_ok : BOOLEAN]

RECURSIVE Collected(_, _)
Collected(h, events) ==
    IF events = <<>> THEN h
    ELSE LET e == Head(events)
             h1 == [h EXCEPT !.last_heartbeat = IF e.heartbeat THEN e.at ELSE @,
                             !.last_metar_update = IF e.update_metar THEN e.at ELSE @]
         IN  Collected(collect_metrics(h1, e.at, e.load, e.with_led, e.probe_ok), Tail(events))

\* a call with a led_controller whose probe is not yet due does what the call
\* without one does, so it is not drawn separately
ProbeDrawn(h, e) ==
    (e.with_led /\ e.at - h.led_last_test > LedTestInterval) \/ (~e.with_led /\ e.probe_ok)

\* the monitor has just been constructed
HmFresh == health = HealthMonitorInit(Epoch) /\ wall = Epoch

HmShouldRestart(events, now) ==
    /\ HmFresh
    /\ \A i \in DOMAIN events :
            /\ events[i].at <= now
            /\ i > 1 => events[i - 1].at <= events[i].at
            /\ ProbeDrawn(Collected(health, SubSeq(events, 1, i - 1)), events[i])
    /\ LET h == Collected(health, events)
           ran(i) == LET before == Collected(health, SubSeq(events, 1, i - 1))
                     IN  /\ events[i].with_led
                         /\ events[i].at - before.led_last_test > LedTestInterval
       IN  health' = [h EXCEPT !.res = [op |-> "should_restart",
                                         status |-> get_health_status(h, now),
                                         restart |-> should_restart(h, now),
                                         probed |-> [i \in DOMAIN events |-> ran(i)]]]
    /\ wall' = now
    /\ HealthUnchanged

NextStatus ==
    /\ HmFresh
    /\ \E now \in Epoch..(Epoch + HealthHorizon) :
        \/ HmShouldRestart(<<>>, now)
        \/ \E e \in Events : HmShouldRestart(<<e>>, now)
        \/ \E e1, e2 \in Events : HmShouldRestart(<<e1, e2>>, now)

SpecStatus == Init /\ [][NextStatus]_vars

----------------------------------------------------------------------------
(* The metrics history of a HealthMonitor whose owner keeps collecting, on a *)
(* system under constant load and without a led_controller                   *)

\* the number of collect_metrics() calls the model makes
MaxCollects == 5

HistCollectMetrics(load) ==
    /\ health.collected < MaxCollects
    /\ health' = collect_metrics(health, wall, load, FALSE, TRUE)
    /\ UNCHANGED wall
    /\ HealthUnchanged

NextHistory ==
    \/ TickHealth
    \/ HmHeartbeat
    \/ \E load \in {l \in Loads : l.cpu = 50 /\ l.log = 0} : HistCollectMetrics(load)

SpecHistory == Init /\ [][NextHistory]_vars

----------------------------------------------------------------------------
(* A ReliabilityManager whose owner calls check_health() without a           *)
(* led_controller, while the control loop calls heartbeat() or stops doing so *)

CheckHealth(load) ==
    /\ health.collected < MaxCollects
    /\ health' = check_health(health, wall, load, FALSE, TRUE)
    /\ UNCHANGED wall
    /\ HealthUnchanged

NextCheck ==
    \/ TickHealth
    \/ HmHeartbeat
    \/ \E load \in Loads : CheckHealth(load)

SpecCheck == Init /\ [][NextCheck]_vars

----------------------------------------------------------------------------
(* FAAAPIClient._make_request: the retry loop around urllib.request.urlopen *)

\* max_retries and retry_delay of the client
MaxRetries == 2
RetryDelay == 1

\* What one urlopen call does: it returns a response (200), or raises
\* HTTPError with a status code, URLError / OSError, or another exception
HTTPCodes == {204, 304, 404, 429, 500, 503}
Outcomes ==
    {[kind |-> "ok", code |-> 200], [kind |-> "network", code |-> 0],
     [kind |-> "other", code |-> 0]}
    \cup {[kind |-> "http", code |-> c] : c \in HTTPCodes}

ReqUnchanged ==
    UNCHANGED <<wall, shared_clock, frame_limiter, effects, state, lock, pc, current_time,
                led_calls, res, cb, cb_res, manager, callers, clk_res, fl_res, effect,
                eff_res, comp, lk, health, cat, rend>>

\* a loop that gives up one attempt early
ShouldRetry_early(attempt) == attempt < MaxRetries - 1

\* "if attempt < self.max_retries"
ShouldRetry(attempt) == attempt < MaxRetries

\* _make_request(endpoint, params) is called
ReqCall ==
    /\ req.pc \in {"idle", "returned", "raised"}
    /\ req' = [ReqIdle EXCEPT !.pc = "attempt"]
    /\ ReqUnchanged

ReqReturn(r, status, body) ==
    [r EXCEPT !.pc = "returned", !.result = [kind |-> "return", status |-> status, body |-> body]]
ReqRaise(r, kind, status) ==
    [r EXCEPT !.pc = "raised", !.result = [kind |-> kind, status |-> status, body |-> ""]]
\* delay = retry_delay * 2 ** attempt; time.sleep(delay) is entered
ReqBackoff(r) ==
    [r EXCEPT !.pc = "sleep", !.slept = @ + RetryDelay * 2^r.attempt]

\* one pass of the loop body: urlopen is called and does o
ReqAttempt(o) ==
    LET r == [req EXCEPT !.outcomes = Append(@, o)]
    IN  /\ req.pc = "attempt"
        /\ req' = CASE o.kind = "ok" -> ReqReturn(r, o.code, "body")
                    [] o.kind = "http" /\ o.code = 204 -> ReqReturn(r, 204, "")
                    [] o.kind = "http" /\ 400 <= o.code /\ o.code < 500 ->
                            ReqRaise(r, "APIError", o.code)
                    [] o.kind = "http" /\ 500 <= o.code /\ o.code < 600 ->
                            IF ShouldRetry(req.attempt) THEN ReqBackoff(r)
                            ELSE ReqRaise(r, "APIError", o.code)
                    [] o.kind = "http" /\ o.code # 204 /\ (o.code < 400 \/ o.code >= 600) ->
                            ReqRaise(r, "APIError", o.code)
                    [] o.kind = "network" ->
                            IF ShouldRetry(req.attempt) THEN ReqBackoff(r)
                            ELSE ReqRaise(r, "NetworkError", 0)
                    [] o.kind = "other" -> ReqRaise(r, "AviationWeatherAPIError", 0)
        /\ ReqUnchanged

\* time.sleep returns; continue: the next value of range(max_retries + 1), or
\* the statement after the loop when there is none
ReqContinue ==
    /\ req.pc = "sleep"
    /\ req' = IF req.attempt + 1 <= MaxRetries
              THEN [req EXCEPT !.pc = "attempt", !.attempt = @ + 1]
              ELSE ReqRaise(req, "AviationWeatherAPIError", 0)
    /\ ReqUnchanged

NextReq ==
    \/ ReqCall
    \/ \E o \in Outcomes : ReqAttempt(o)
    \/ ReqContinue

SpecReq == Init /\ [][NextReq]_vars

----------------------------------------------------------------------------
(* flight_category.compute_flight_category, for a METAR element without a    *)
(* forecast child. Feet are integers; statute miles are counted in tenths.   *)

RECURSIVE SeqMin(_)
SeqMin(s) ==
    IF Len(s) = 1 THEN s[1]
    ELSE LET m == SeqMin(Tail(s)) IN IF s[1] < m THEN s[1] ELSE m

\* the first base listed
LowestBase_first(bases) == bases[1]

\* min(bases)
LowestBase(bases) == SeqMin(bases)

\* the else branch of "if bases:": int(vert_vis_elem.text), None when the
\* element is missing or int() raises
VertVisCeiling(m) ==
    IF m.vert_vis_ft.kind = "num" THEN m.vert_vis_ft ELSE Missing

\* the category of a ceiling in feet
CeilingCategory(ft) ==
    IF ft < 500 THEN "LIFR"
    ELSE IF ft < 1000 THEN "IFR"
    ELSE IF ft <= 3000 THEN "MVFR"
    ELSE "VFR"

\* compute_flight_category(metar_elem)
compute_flight_category(m) ==
    LET ceilings == SelectSeq(m.layers, LAMBDA l : l.sky_cover \in {"OVC", "BKN", "OVX"}
                                                   /\ l.cloud_base_ft_agl.kind = "num")
        bases == [i \in DOMAIN ceilings |-> ceilings[i].cloud_base_ft_agl.value]
        cld_base_ft_agl == IF bases # <<>> THEN Num(LowestBase(bases)) ELSE VertVisCeiling(m)
        by_ceiling == IF cld_base_ft_agl.kind = "num"
                      THEN CeilingCategory(cld_base_ft_agl.value) ELSE "VFR"
        v == m.visibility
        flightcategory ==
            IF by_ceiling # "LIFR" /\ v.kind = "num"
            THEN IF v.value < 10 THEN "LIFR"
                 ELSE IF v.value < 30 THEN "IFR"
                 ELSE IF v.value <= 50 /\ by_ceiling # "IFR" THEN "MVFR"
                 ELSE by_ceiling
            ELSE by_ceiling
        has_valid_ceiling == cld_base_ft_agl.kind = "num"
        has_valid_visibility == v.kind \in {"num", "invalid"}
    IN  \* attrib['sky_cover'] of a layer without the attribute raises KeyError,
        \* and text.strip of a visibility element without text AttributeError:
        \* both reach the outer except
        IF \E i \in DOMAIN m.layers : m.layers[i].sky_cover = "" THEN "NONE"
        ELSE IF by_ceiling # "LIFR" /\ v.kind = "empty" THEN "NONE"
        ELSE IF ~has_valid_ceiling /\ ~has_valid_visibility THEN "NONE"
        ELSE flightcategory

\* the sky_condition elements, vert_vis_ft and visibility values drawn
Layers ==
    [sky_cover : {"OVC", "BKN", "OVX", "FEW", "SCT", ""},
     cloud_base_ft_agl : {Missing, Invalid} \cup {Num(n) : n \in {499, 500, 999, 1000, 3000, 3001}}]
VertVis == {Missing, Invalid, Num(200), Num(4000)}
Visibilities == {Missing, Invalid, Empty} \cup {Num(n) : n \in {9, 10, 29, 30, 50, 51}}

CatUnchanged ==
    UNCHANGED <<wall, shared_clock, frame_limiter, effects, state, lock, pc, current_time,
                led_calls, res, cb, cb_res, manager, callers, clk_res, fl_res, effect,
                eff_res, comp, lk, health, req, rend>>

\* the function is applied to one observation
CatCompute(layers, vv, vis) ==
    /\ cat.op = "init"
    /\ LET m == [layers |-> layers, vert_vis_ft |-> vv, visibility |-> vis]
       IN  cat' = [op |-> "compute_flight_category", metar |-> m,
                   result |-> compute_flight_category(m)]
    /\ CatUnchanged

NextCat ==
    /\ cat.op = "init"
    /\ \E vv \in VertVis, vis \in Visibilities :
        \/ CatCompute(<<>>, vv, vis)
        \/ \E l \in Layers : CatCompute(<<l>>, vv, vis)
        \/ \E l1, l2 \in Layers : CatCompute(<<l1, l2>>, vv, vis)

SpecCat == Init /\ [][NextCat]_vars

----------------------------------------------------------------------------
(* One tick's _combine_effects and _render_frame for the frames of "a", a    *)
(* blink on pixels 0 and 1, of "b", a heat map on pixel 0, and of "w", a     *)
(* weather effect constructed without pixel_indices                          *)

\* WeatherEffect.intensity in percent: the default 1.0, and 0.5
Intensities == {50, 100}

\* the frame of WeatherEffect.update: brightness=self.intensity
WeatherFrame(e, now, intensity) ==
    [WeatherUpdate(e, now).frame EXCEPT !.brightness = intensity]

RendUnchanged ==
    UNCHANGED <<wall, shared_clock, frame_limiter, effects, state, lock, pc, current_time,
                led_calls, res, cb, cb_res, manager, callers, clk_res, fl_res, effect,
                eff_res, comp, lk, health, req, cat>>

\* c1, c2: the colors of a's and b's frames; heat, weather: whether b and w
\* produced a frame in the tick
RenderOnce(c1, c2, heat, weather, intensity) ==
    LET ea == NewEffect("a", "blink")
        eb == NewEffect("b", "heatmap")
        ew == NewEffect("w", "weather")
        effs == <<ea, eb, ew>>
        fa == Frame(ea, wall, [i \in 1..Len(ea.pixel_indices) |-> c1], 100)
        fb == Frame(eb, wall, [i \in 1..Len(eb.pixel_indices) |-> c2], 100)
        fw == WeatherFrame(ew, wall, intensity)
        plain == <<fa>> \o (IF heat THEN <<fb>> ELSE <<>>)
        frames == plain \o (IF weather THEN <<fw>> ELSE <<>>)
    IN  /\ rend.op = "init"
        /\ rend' = [op |-> "render", frames |-> frames,
                    calls |-> RenderFrame(CombineEffects(effs, frames), "none").calls,
                    others |-> RenderFrame(CombineEffects(effs, plain), "none").calls]
        /\ RendUnchanged

NextRend ==
    /\ rend.op = "init"
    /\ \E c1, c2 \in Colors, heat, weather \in BOOLEAN, intensity \in Intensities :
            RenderOnce(c1, c2, heat, weather, intensity)

SpecRend == Init /\ [][NextRend]_vars

----------------------------------------------------------------------------
(* Claims about the controller's shutdown path *)

InCall(t, f) == \E i \in DOMAIN pc[t] : pc[t][i] = f
Returned(op) == res.op = op /\ res.ret = "None"

\* C1: a call to emergency_shutdown() completes (the thread inside it can always
\* take its next step), and when it has returned the pixel driver was asked to
\* clear() and the controller state is Stopped.
C1_EmergencyShutdownClears ==
    /\ \A t \in Threads : InCall(t, "emergency_shutdown") => ENABLED StopAllEffects(t)
    /\ Returned("emergency_shutdown") =>
           /\ led_calls = <<[call |-> "clear"]>>
           /\ state = STOPPED

\* C2: stop_animation() returns to its caller (the thread inside it is never
\* waiting for a lock it holds itself), and on return the controller state is
\* Stopped, every registered effect is Stopped and the SharedClock is paused.
C2_StopAnimationReturns ==
    /\ \A t \in Threads : InCall(t, "stop_animation") => lock # t
    /\ Returned("stop_animation") =>
           /\ state = STOPPED
           /\ \A i \in DOMAIN effects : effects[i].state = STOPPED
           /\ shared_clock.paused

----------------------------------------------------------------------------
(* Claims about the effect table *)

\* C3: add_effect with an id already in the table returns false and leaves the
\* table as it was (same entries, same order, each effect with its state, start
\* time and parameters); the table never holds two entries with one id.
C3_AddDuplicateRejected ==
    /\ [][\A e \in Catalog :
            (res'.op = "add_effect" /\ AddEffect("control", e) /\ Has(effects, e.effect_id))
                => (res'.ret = "False" /\ effects' = effects)]_vars
    /\ [](\A i, j \in DOMAIN effects :
            effects[i].effect_id = effects[j].effect_id => i = j)

\* C3 witness: a rejected add while the entry of that id is a Running effect
C3_Witness ==
    /\ res.op = "add_effect" /\ res.ret = "False"
    /\ Has(effects, res.arg) /\ Lookup(effects, res.arg).state = RUNNING
    /\ Lookup(effects, res.arg).start_time > 0

\* C4: remove_effect with an unknown id returns false and changes neither the
\* table nor the controller state; with a known id it stops that effect and
\* deletes exactly its entry, every other entry staying as it was.
C4_RemoveEffect ==
    [][\A id \in EffectIds :
        (res'.op = "remove_effect" /\ RemoveEffect("control", id)) =>
            IF ~Has(effects, id)
            THEN res'.ret = "False" /\ effects' = effects /\ state' = state
            ELSE /\ res'.ret = "True"
                 /\ res'.removed.effect_id = id /\ res'.removed.state = STOPPED
                 /\ ~Has(effects', id)
                 /\ Len(effects') = Len(effects) - 1
                 /\ state' = state
                 /\ \A j \in EffectIds \ {id} :
                        /\ Has(effects', j) <=> Has(effects, j)
                        /\ Has(effects, j) => Lookup(effects', j) = Lookup(effects, j)]_vars

\* C4 witness: a Running effect was removed while another Running entry stays
C4_Witness ==
    /\ res.op = "remove_effect" /\ res.ret = "True"
    /\ res.removed.start_time > 0
    /\ Len(effects) = 1 /\ effects[1].state = RUNNING

----------------------------------------------------------------------------
(* Claims about update() *)

TickCalls(effs, now) ==
    LET u == UpdateEffects(effs, now, {})
    IN  IF u.active_effects = <<>> THEN <<>>
        ELSE RenderCalls(RenderedFrame(CombineEffects(u.effects, u.active_effects)))

AllowedTransition(from, to) ==
    \/ from = to
    \/ to = STOPPED
    \/ from = STOPPED /\ to = RUNNING
    \/ from = RUNNING /\ to = PAUSED
    \/ from = PAUSED /\ to = RUNNING
    \/ from = RUNNING /\ to = ERROR

\* C6: an effect's state changes only along Stopped->Running, Running->Stopped,
\* Running->Paused, Paused->Running and any->Stopped; a start, pause or resume
\* made in a state that does not allow it is rejected and leaves the state and
\* the start time as they were; start_effect and stop_effect on an unknown id
\* return false.
C6_LifecycleTransitions ==
    [][\A id \in EffectIds :
        /\ (Has(effects, id) /\ Has(effects', id)) =>
              AllowedTransition(Lookup(effects, id).state, Lookup(effects', id).state)
        /\ (res'.op = "start_effect" /\ StartEffect("control", id) /\ Has(effects, id)
                /\ Lookup(effects, id).state # STOPPED) =>
              (res'.ret = "False" /\ effects' = effects)
        /\ ((StartEffect("control", id) \/ StopEffect("control", id)) /\ ~Has(effects, id)) =>
              res'.ret = "False"]_vars

\* C7: while the controller is not Running, update() returns false and does
\* nothing: no effect is updated or polled, no state changes, the frame limiter
\* is not consulted, no call is made to the pixel driver.
C7_UpdateWhenStopped ==
    [][(res'.op = "update" /\ UpdateBegin("render") /\ state # RUNNING) =>
        /\ res'.ret = "False"
        /\ led_calls' = <<>>
        /\ UNCHANGED <<wall, shared_clock, frame_limiter, effects, state, lock, pc,
                       current_time>>]_vars

\* C7 witness: update() returned false on a stopped controller that holds a
\* Running effect
C7_Witness ==
    /\ res.op = "update" /\ res.ret = "False"
    /\ state = STOPPED
    /\ \E i \in DOMAIN effects : effects[i].state = RUNNING

----------------------------------------------------------------------------
(* Claims about the CircuitBreaker *)

SinceLastFailure == wall - cb.last_failure_time

\* C8: after failure_threshold delegate failures in a row the breaker is Open;
\* a call made while Open before recovery_timeout has passed since the last
\* failure is rejected without invoking the delegate and without changing the
\* failure counter or the last-failure time; a call made while Open after
\* recovery_timeout has passed invokes the delegate once, as the Half-Open trial.
C8_BreakerOpensAndRejects ==
    /\ [](cb_res.streak >= FailureThreshold => cb.state = "OPEN")
    /\ [][\A ok \in BOOLEAN, d \in 0..1 :
            (CbCall(ok, d) /\ cb.state = "OPEN") =>
                /\ SinceLastFailure < RecoveryTimeout =>
                      (cb_res'.result = "rejected" /\ cb_res'.invoked = 0 /\ cb' = cb)
                /\ SinceLastFailure > RecoveryTimeout =>
                      (cb_res'.invoked = 1 /\ cb_res'.trial)]_vars

\* C8 witness: a call was rejected by a breaker that failure_threshold failures
\* in a row had opened
C8_Witness ==
    /\ cb_res.result = "rejected"
    /\ cb.state = "OPEN"
    /\ cb_res.streak = FailureThreshold
    /\ cb.failure_count = FailureThreshold

\* C9: a Half-Open trial that succeeds leaves the breaker Closed with the failure
\* counter at 0 and returns the delegate's result; a trial that fails leaves it
\* Open with the last-failure time at the trial's failure time and propagates
\* the delegate's exception, and calls are then rejected until recovery_timeout
\* has passed since that time.
C9_TrialOutcome ==
    /\ [][\A ok \in BOOLEAN, d \in 0..1 :
            (CbCall(ok, d) /\ cb.state = "OPEN" /\ SinceLastFailure > RecoveryTimeout) =>
                IF ok
                THEN /\ cb_res'.result = "returned"
                     /\ cb'.state = "CLOSED" /\ cb'.failure_count = 0
                ELSE /\ cb_res'.result = "raised"
                     /\ cb'.state = "OPEN" /\ cb'.last_failure_time = wall']_vars
    /\ [][\A ok \in BOOLEAN, d \in 0..1 :
            (CbCall(ok, d) /\ cb.state = "OPEN" /\ cb_res.trial /\ cb_res.result = "raised"
                /\ SinceLastFailure < RecoveryTimeout) =>
                cb_res'.result = "rejected"]_vars

\* C9 witness: a trial call has succeeded on a breaker that had counted failures
C9_Witness ==
    /\ cb_res.trial /\ cb_res.result = "returned"
    /\ cb.state = "CLOSED" /\ cb.failure_count = 0
    /\ cb.last_failure_time > 0

\* C10: the failure counter counts failures in a row: after a successful call
\* it is zero, and the breaker is Open only after failure_threshold delegate
\* failures with no successful call in between.
C10_ConsecutiveFailures ==
    /\ cb_res.result = "returned" => cb.failure_count = 0
    /\ cb.state = "OPEN" => cb_res.streak >= FailureThreshold

----------------------------------------------------------------------------
(* Claims about a CircuitBreaker shared by several threads *)

\* C11: calls through one shared per-name CircuitBreaker from several threads
\* are serialized: at no time do two callers' delegates run as the Half-Open
\* trial of one breaker, no failure-counter increment is lost (when no call is
\* in progress, the counter equals the delegate failures since it was last
\* zeroed), and get_circuit_breaker never makes two breakers for one name.
C11_SerializedBreaker ==
    /\ \A t, u \in Callers :
          (/\ callers[t].pc = "func" /\ callers[t].trial
           /\ callers[u].pc = "func" /\ callers[u].trial
           /\ callers[t].breaker = callers[u].breaker) => t = u
    /\ (\A t \in Callers : callers[t].pc = "idle") =>
          \A i \in DOMAIN manager.objects :
              manager.objects[i].failure_count = manager.failures[i]
    /\ Len(manager.objects) <= 1

----------------------------------------------------------------------------
(* Claims about the SharedClock *)

\* C12: over any sequence of pause(), resume() and get_time() calls, a reading
\* is never below the reading before it and never exceeds it by more than the
\* real time that passed in between while the clock was running; readings taken
\* while the clock is paused included, which stay at the logical time of the pause.
C12_MonotoneNoJump ==
    [][(clk_res'.op = "get_time" /\ ClkGetTime) =>
          /\ clk_res'.reading >= clk_res.reading
          /\ clk_res'.reading - clk_res.reading <= clk_res.ran - clk_res.ran_at_read
          /\ shared_clock.paused => clk_res'.reading = shared_clock.pause_offset]_vars

\* C13: a reading taken from a running clock is the real time that has passed
\* while the clock was running: after pause(), a delay and resume(), the reading
\* is the reading before the pause plus the time run since, the paused duration
\* not added, for any number of pause/resume cycles.
C13_PausedTimeNotCounted ==
    (clk_res.op = "get_time" /\ ~shared_clock.paused) =>
        clk_res.reading = clk_res.ran_at_read

\* C13 witness: a reading after two pause/resume cycles with time spent paused
\* and time spent running
C13_Witness ==
    /\ clk_res.op = "get_time" /\ ~shared_clock.paused
    /\ clk_res.cycles >= 2 /\ clk_res.idle >= 2
    /\ clk_res.reading >= 2

----------------------------------------------------------------------------
(* Claims about the FrameRateLimiter *)

\* C14: when more than 10 calls in a row to wait_for_next_frame() have each
\* found the interval since the previous call above max_frame_time, the call
\* raises the fatal exception.
C14_StallsEscalate ==
    (fl_res.op = "wait_for_next_frame" /\ fl_res.stalls > MaxFrameSkips) => fl_res.raised

\* C15: every wait_for_next_frame() that returns returns true, and it returns
\* at least 1/target_fps after the return of the call before it.
C15_FramesSpaced ==
    (fl_res.op = "wait_for_next_frame" /\ ~fl_res.raised) =>
        /\ fl_res.ret
        /\ fl_res.prev_return # -1 => fl_res.returned_at - fl_res.prev_return >= FrameTime

\* C15 witness: a call entered less than 1/target_fps after the one before it
\* returned, which therefore slept before it returned true
C15_Witness ==
    /\ fl_res.op = "wait_for_next_frame" /\ fl_res.ret
    /\ fl_res.prev_return # -1
    /\ fl_res.called_at - fl_res.prev_return < FrameTime
    /\ fl_res.returned_at > fl_res.called_at

----------------------------------------------------------------------------
(* Claims about a single effect *)

\* C16: over any interleaving of start, stop, pause, resume and update on a
\* HeatMapEffect, 0 <= current_iteration <= max_iterations; update returns a
\* frame at most max_iterations times in all; an update entered with the cap
\* reached returns no frame and leaves is_complete true.
C16_HeatMapBounded ==
    effect.kind = "heatmap" =>
        /\ 0 <= effect.current_iteration
        /\ effect.current_iteration <= effect.max_iterations
        /\ eff_res.frames <= effect.max_iterations
        /\ (eff_res.op = "update" /\ eff_res.iter_before >= effect.max_iterations) =>
              (~eff_res.frame /\ eff_res.complete)

\* C16 witness: a Running heat map that was started again after it had
\* returned max_iterations frames is updated once more and returns no frame
C16_Witness ==
    /\ effect.kind = "heatmap" /\ effect.state = RUNNING
    /\ eff_res.op = "update" /\ ~eff_res.frame
    /\ eff_res.frames = effect.max_iterations
    /\ eff_res.iter_before = effect.max_iterations
    /\ effect.start_time > Epoch

\* C17: for every variant, is_complete(now) evaluated right after start(now)
\* is false, also for an effect started again after it ran to completion.
C17_FreshAfterStart ==
    eff_res.op = "start" => ~eff_res.complete

----------------------------------------------------------------------------
(* Claims about timeouts and about the compositor *)

\* C18: an effect of any variant, in any lifecycle state, whose elapsed logical
\* time (now minus its start time) exceeds its timeout is Stopped at the end of
\* the update() tick.
C18_TimedOutStopped ==
    [][\A raising \in SUBSET EffectIds :
        (res'.op = "update" /\ UpdateTick("render", raising, "none")) =>
            \A i \in DOMAIN effects :
                is_timed_out(effects[i], current_time["render"]) =>
                    effects'[i].state = STOPPED]_vars

\* The color of a black pixel after color x and then color y were written to
\* it, each write weighted 0.5 against the buffer and truncated
BlendedInTurn(x, y) ==
    <<((x[1] \div 2) + y[1]) \div 2, ((x[2] \div 2) + y[2]) \div 2,
      ((x[3] \div 2) + y[3]) \div 2>>

\* C19: when two frames of one tick write the same pixel, the frame of the
\* higher-priority effect (a, High) is applied after the frame of the
\* lower-priority effect (b, Low), so the shared pixel is b's color blended into
\* black and then a's color blended into that.
C19_HigherPriorityLast ==
    comp.op = "combine" =>
        /\ comp.order = <<"b", "a">>
        /\ comp.out = BlendedInTurn(comp.c2, comp.c1)

\* C20, as claimed: for two effects that share a pixel, with colors c1 (higher
\* priority) and c2 (lower priority), c1 # c2, the combined pixel is never c1.
C20_NeverRawOutput ==
    (comp.op = "combine" /\ comp.c1 # comp.c2) => comp.out # comp.c1

\* C20, amended: for two effects that share a pixel, with colors c1 # c2, the
\* combined pixel is the result of blending the two colors one after the other
\* into the black buffer, each with the fixed weight 0.5; it is the same
\* whatever the order in which the frames are handed to the compositor; and it
\* differs from c1 whenever no channel of c2 exceeds that channel of c1.
C20_BlendedNotOverwritten ==
    (comp.op = "combine" /\ comp.c1 # comp.c2) =>
        /\ comp.out \in {BlendedInTurn(comp.c1, comp.c2), BlendedInTurn(comp.c2, comp.c1)}
        /\ comp.out = comp.alt
        /\ (\A ch \in 1..3 : comp.c2[ch] <= comp.c1[ch]) => comp.out # comp.c1

\* C20 witness: two different colors on the shared pixel gave a combined color
\* that is neither of them nor black
C20_Witness ==
    /\ comp.op = "combine" /\ comp.c1 # comp.c2
    /\ comp.c1 # BLACK /\ comp.c2 # BLACK
    /\ comp.out \notin {comp.c1, comp.c2, BLACK}

\* C21: in a tick in which no Running effect returns a frame (the table is
\* empty, no effect is Running, or every update raises or returns none),
\* update() makes no call to the pixel driver and returns True.
C21_NoFrameNoRender ==
    [][\A raising \in SUBSET EffectIds, fault \in Faults :
        (res'.op = "update" /\ UpdateTick("render", raising, fault)
         /\ \A i \in DOMAIN effects :
                (effects[i].state = RUNNING /\ effects[i].effect_id \notin raising)
                    => EffectUpdate(effects[i], current_time["render"]).frame = NoFrame)
            => led_calls' = <<>> /\ res'.ret = "True"]_vars

\* C21 witness: a tick of the running controller, with an effect in the table,
\* has returned True without a driver call
C21_Witness ==
    /\ res = Call("update", "", "True")
    /\ state = RUNNING
    /\ effects # <<>>
    /\ led_calls = <<>>

\* Whether a frame that a Running effect returns in this tick writes pixel p
Touched(p, raising) ==
    \E i \in DOMAIN effects :
        /\ effects[i].state = RUNNING
        /\ effects[i].effect_id \notin raising
        /\ LET f == EffectUpdate(effects[i], current_time["render"]).frame
           IN  /\ f # NoFrame
               /\ \E k \in DOMAIN f.indices : k <= Len(f.pixels) /\ f.indices[k] = p

\* C22: the driver calls of one tick write the indices 0..N-1 in order, each
\* once, and then flush once (when no driver call raises; otherwise they are
\* the beginning of that sequence); a pixel that no effect frame of the tick
\* touches is written black; no frame of fewer than N pixels is sent.
C22_FullFrameRendered ==
    [][\A raising \in SUBSET EffectIds, fault \in Faults :
        (res'.op = "update" /\ UpdateTick("render", raising, fault) /\ led_calls' # <<>>) =>
            /\ fault = "none" =>
                /\ Len(led_calls') = NumPixels + 1
                /\ led_calls'[NumPixels + 1].call = "show_pixels"
                /\ \A k \in 1..NumPixels : led_calls'[k].call = "set_pixel_color"
            /\ \A k \in DOMAIN led_calls' :
                led_calls'[k].call = "set_pixel_color" =>
                    /\ led_calls'[k].index = k - 1
                    /\ ~Touched(k - 1, raising) => led_calls'[k].color = BLACK]_vars

\* C22 witness: a tick has rendered a full frame in which one pixel is black and
\* another is not
C22_Witness ==
    /\ res = Call("update", "", "True")
    /\ Len(led_calls) = NumPixels + 1
    /\ led_calls[NumPixels + 1].call = "show_pixels"
    /\ \E k \in 1..NumPixels : led_calls[k].color = BLACK
    /\ \E k \in 1..NumPixels : led_calls[k].color # BLACK

\* C23: when set_pixel_color or show_pixels raises while the frame is rendered,
\* update() returns True, the controller state is unchanged, the effects are
\* left as the tick leaves them without the fault, the lock is free, and the
\* frame limiter is untouched and the thread idle, so the next update() is paced
\* as usual.
C23_DriverFaultContained ==
    [][\A raising \in SUBSET EffectIds, fault \in Faults \ {"none"} :
        (res'.op = "update" /\ UpdateTick("render", raising, fault)) =>
            /\ res'.ret = "True"
            /\ state' = state
            /\ effects' = UpdateEffects(effects, current_time["render"], raising).effects
            /\ lock' = "free"
            /\ frame_limiter' = frame_limiter
            /\ pc'["render"] = <<>>]_vars

\* C23 witness: a tick in which a driver call raised has returned True with the
\* controller still running and the lock free
C23_Witness ==
    /\ res = Call("update", "", "True")
    /\ \E k \in DOMAIN led_calls : led_calls[k] = Raised
    /\ state = RUNNING
    /\ lock = "free"

\* C24: the driver calls go through a circuit breaker, so a tick whose render
\* fails is recorded by a breaker (its failure count or state changes).
C24_FailedRenderCounted ==
    [][\A raising \in SUBSET EffectIds, fault \in Faults \ {"none"} :
        (res'.op = "update" /\ UpdateTick("render", raising, fault)) =>
            (cb' # cb \/ manager' # manager)]_vars

----------------------------------------------------------------------------
(* Claims about the lock of the effect table *)

\* the threads that are inside a "with self.lock" block
LkInside == {t \in LkThreads : lk.th[t].pc \in {"body", "release"}}

\* C25: at most one thread is inside add_effect, remove_effect, start_effect,
\* stop_effect, get_status or the table section of update() at a time, and it
\* holds the lock; while update() iterates the table, its keys are the ones it
\* had when the iteration began, and no remove_effect is between its
\* effect.stop() and its del.
C25_TableOpsSerialized ==
    /\ Cardinality(LkInside) <= 1
    /\ \A t \in LkInside : lk.lock = t
    /\ lk.th["render"].pc = "body" =>
          /\ LkKeys(lk.effects) = lk.th["render"].seen
          /\ \A t \in LkThreads \ {"render"} : ~(lk.th[t].pc = "body" /\ lk.th[t].i = 2)

\* C25 witness: update() is in the middle of its iteration over a table of two
\* effects while one thread waits to remove an effect and another to add one
C25_Witness ==
    /\ lk.th["render"].pc = "body"
    /\ lk.th["render"].i = 2
    /\ Len(lk.effects) = 2
    /\ lk.th["control"].pc = "acquire" /\ lk.th["control"].op = "remove_effect"
    /\ lk.th["web"].pc = "acquire" /\ lk.th["web"].op = "add_effect"

----------------------------------------------------------------------------
(* Claims about the HealthMonitor *)

\* Whether snapshot m, read at the time the wall clock shows, meets a Critical
\* condition / a Degraded condition
CriticalCondition(m) ==
    \/ m.memory_usage_mb > 400
    \/ m.cpu_usage_percent > 90
    \/ wall - m.main_loop_heartbeat > HeartbeatTimeout
    \/ m.led_responsive = FALSE
DegradedCondition(m) ==
    \/ m.memory_usage_mb > 200
    \/ m.cpu_usage_percent > 70
    \/ wall - m.last_metar_update > MetarTimeout
    \/ m.log_file_size_mb > 50

\* C26: the status get_health_status() returns is Healthy for an empty history
\* and otherwise is decided by the newest snapshot and the current time alone:
\* Critical if it meets a Critical condition, else Degraded if it meets a
\* Degraded condition, else Healthy; should_restart() is true exactly when the
\* status is Critical or Failed.
C26_StatusFromLatest ==
    health.res.op = "should_restart" =>
        LET hist == health.metrics_history
            newest == hist[Len(hist)]
        IN  /\ health.res.status =
                    IF hist = <<>> THEN "healthy"
                    ELSE IF CriticalCondition(newest) THEN "critical"
                    ELSE IF DegradedCondition(newest) THEN "degraded"
                    ELSE "healthy"
            /\ health.res.restart = (health.res.status \in {"critical", "failed"})

\* C26 witness: the status was taken from a history whose older snapshot meets
\* a Critical condition and whose newest meets a Degraded one only
C26_Witness ==
    /\ health.res.op = "should_restart"
    /\ Len(health.metrics_history) = 2
    /\ CriticalCondition(health.metrics_history[1])
    /\ ~CriticalCondition(health.metrics_history[2])
    /\ DegradedCondition(health.metrics_history[2])
    /\ health.res.status = "degraded"
    /\ ~health.res.restart

\* C27: the history never holds more than max_history snapshots; it holds the
\* most recently collected ones (all of them until max_history have been
\* collected), in the order they were collected.
C27_HistoryBounded ==
    LET hist == health.metrics_history
    IN  /\ Len(hist) <= MaxHistory
        /\ Len(hist) = IF health.collected < MaxHistory THEN health.collected ELSE MaxHistory
        /\ \A i \in DOMAIN hist : hist[i].n = health.collected - Len(hist) + i

\* C27 witness: more snapshots than max_history have been collected, so the
\* oldest ones have been evicted
C27_Witness ==
    /\ health.collected = MaxHistory + 2
    /\ Len(health.metrics_history) = MaxHistory
    /\ health.metrics_history[1].n = 3

----------------------------------------------------------------------------
(* Claims about the colors of the Fade and Blink effects *)

\* Whether x lies between a and b, whichever of the two is larger
Between(x, a, b) == (a <= x /\ x <= b) \/ (b <= x /\ x <= a)

\* C28: every pixel a Running FadeEffect emits has each channel between the
\* start and the end channel; it is start_color when now is at or before the
\* start time, end_color once fade_duration has passed, and the truncated mean
\* of the two colors at half of fade_duration.
C28_FadeClamped ==
    (eff_res.op = "update" /\ effect.kind = "fade" /\ eff_res.frame) =>
        \A i \in DOMAIN eff_res.pixels :
            LET c == eff_res.pixels[i]
                elapsed == eff_res.now - effect.start_time
            IN  /\ \A k \in 1..3 : Between(c[k], FadeStartColor[k], FadeEndColor[k])
                /\ elapsed <= 0 => c = FadeStartColor
                /\ elapsed >= effect.fade_duration => c = FadeEndColor
                /\ 2 * elapsed = effect.fade_duration =>
                      c = [k \in 1..3 |-> (FadeStartColor[k] + FadeEndColor[k]) \div 2]

\* C29: a Running BlinkEffect emits one pixel per index, all of the configured
\* color while the position in the period, (now - start_time) mod period, is
\* below half of the period (duty_cycle 0.5), and all black otherwise.
C29_BlinkDutyCycle ==
    (eff_res.op = "update" /\ effect.kind = "blink" /\ eff_res.frame) =>
        LET position == (eff_res.now - effect.start_time) % BlinkPeriod
        IN  /\ Len(eff_res.pixels) = Len(effect.pixel_indices)
            /\ \A i \in DOMAIN eff_res.pixels :
                  eff_res.pixels[i] = IF 2 * position < BlinkPeriod THEN <<255, 0, 0>>
                                      ELSE <<0, 0, 0>>

\* C29 witness: a blink updated in the second half of a period after its
\* first has emitted black on both of its pixels
C29_Witness ==
    /\ eff_res.op = "update" /\ effect.kind = "blink" /\ effect.state = RUNNING
    /\ eff_res.now - effect.start_time > 0
    /\ 2 * ((eff_res.now - effect.start_time) % BlinkPeriod) >= BlinkPeriod
    /\ eff_res.pixels = <<BLACK, BLACK>>

----------------------------------------------------------------------------
(* Claims about FAAAPIClient._make_request *)

Retried(o) == o.kind = "network" \/ (o.kind = "http" /\ o.code \in {500, 503})

\* C30: a call makes at most max_retries + 1 attempts. An attempt that fails
\* with a network error or a 5xx response is followed by another one unless it
\* was attempt max_retries + 1, in which case NetworkError (after a network
\* error) or APIError (after a 5xx response) is raised; a successful attempt
\* is the last one and its status and body are returned; a 4xx response is the
\* last attempt and raises APIError, after one attempt when it is the first
\* outcome.
C30_BoundedRetries ==
    LET n == Len(req.outcomes)
        last == req.outcomes[n]
    IN  /\ n <= MaxRetries + 1
        /\ \A i \in 1..(n - 1) : Retried(req.outcomes[i])
        /\ (n > 0 /\ Retried(last)) =>
              IF n = MaxRetries + 1
              THEN /\ req.pc = "raised"
                   /\ req.result.kind = IF last.kind = "network" THEN "NetworkError"
                                        ELSE "APIError"
              ELSE /\ req.pc \in {"sleep", "attempt"}
                   /\ req.result.kind = "none"
        /\ (n > 0 /\ last.kind = "ok") =>
              /\ req.pc = "returned"
              /\ req.result = [kind |-> "return", status |-> 200, body |-> "body"]
        /\ (n > 0 /\ last.kind = "http" /\ last.code \in {404, 429}) =>
              /\ req.pc = "raised"
              /\ req.result.kind = "APIError"
              /\ req.result.status = last.code
        /\ req.pc = "sleep" => req.attempt = n - 1
        /\ req.pc = "attempt" => req.attempt = n

\* C30 witness: every attempt failed, a 5xx response among them and a network
\* error last, and NetworkError was raised after max_retries + 1 attempts
C30_Witness ==
    /\ req.pc = "raised"
    /\ Len(req.outcomes) = MaxRetries + 1
    /\ req.outcomes[1] = [kind |-> "http", code |-> 500]
    /\ req.outcomes[MaxRetries + 1].kind = "network"
    /\ req.result.kind = "NetworkError"

----------------------------------------------------------------------------
(* Claims about the flight category *)

CeilingCovers == {"OVC", "BKN", "OVX"}

\* the categories from the most to the least restrictive
Restriction(c) == CASE c = "LIFR" -> 0 [] c = "IFR" -> 1 [] c = "MVFR" -> 2 [] c = "VFR" -> 3

MoreRestrictive(a, b) == IF Restriction(a) <= Restriction(b) THEN a ELSE b

\* the numeric bases of the OVC/BKN/OVX layers of an observation
CeilingBases(m) ==
    {m.layers[i].cloud_base_ft_agl.value :
        i \in {j \in DOMAIN m.layers : /\ m.layers[j].sky_cover \in CeilingCovers
                                       /\ m.layers[j].cloud_base_ft_agl.kind = "num"}}

\* the ceiling of an observation: its lowest OVC/BKN/OVX base and, without one,
\* its vertical visibility; -1 when it has neither
CeilingOf(m) ==
    IF CeilingBases(m) # {}
    THEN CHOOSE b \in CeilingBases(m) : \A c \in CeilingBases(m) : b <= c
    ELSE IF m.vert_vis_ft.kind = "num" THEN m.vert_vis_ft.value ELSE -1

CategoryOfCeiling(ft) ==
    CASE ft < 500 -> "LIFR"
      [] ft >= 500 /\ ft <= 999 -> "IFR"
      [] ft >= 1000 /\ ft <= 3000 -> "MVFR"
      [] ft > 3000 -> "VFR"

CategoryOfVisibility(tenths) ==
    CASE tenths < 10 -> "LIFR"
      [] tenths >= 10 /\ tenths < 30 -> "IFR"
      [] tenths >= 30 /\ tenths <= 50 -> "MVFR"
      [] tenths > 50 -> "VFR"

\* an observation whose fields are either numbers or absent
WellFormed(m) ==
    /\ \A i \in DOMAIN m.layers : /\ m.layers[i].sky_cover # ""
                                  /\ m.layers[i].cloud_base_ft_agl.kind \in {"num", "missing"}
    /\ m.vert_vis_ft.kind \in {"num", "missing"}
    /\ m.visibility.kind \in {"num", "missing"}

C32_InvalidOrMissingIsNone ==
    cat.op = "compute_flight_category" =>
        LET m == cat.metar
        IN  (\/ \E i \in DOMAIN m.layers : /\ m.layers[i].sky_cover \in CeilingCovers
                                           /\ m.layers[i].cloud_base_ft_agl.kind = "invalid"
             \/ m.visibility.kind = "invalid"
             \/ CeilingBases(m) = {} /\ m.visibility.kind = "missing")
            => cat.result = "NONE"

----------------------------------------------------------------------------
(* Claims about the controller: termination, rendering, effect states *)

\* C33: every operation of the controller returns: the lock is free whenever
\* no thread is inside an operation, and a thread inside an operation can
\* always take its next step, so that the lock is never held for ever.
C33_OperationsReturn ==
    /\ (\A t \in Threads : Idle(t)) => lock = "free"
    /\ \A t \in Threads :
        ~Idle(t) => \/ ENABLED StopAllEffects(t)
                    \/ ENABLED (\E raising \in SUBSET EffectIds, fault \in Faults :
                                    UpdateTick(t, raising, fault))

\* the driver calls of a frame whose N pixels are all black
AllBlack(calls) ==
    /\ Len(calls) = NumPixels + 1
    /\ \A k \in 1..NumPixels : calls[k].call = "set_pixel_color" /\ calls[k].color = BLACK
    /\ calls[NumPixels + 1].call = "show_pixels"

\* C34: an update() tick of a running controller that finds effects registered
\* and every one of them Stopped renders an all-black frame.
C34_StoppedEffectsGoDark ==
    [][\A raising \in SUBSET EffectIds :
        (/\ res'.op = "update" /\ UpdateTick("render", raising, "none")
         /\ state = RUNNING
         /\ effects # <<>>
         /\ \A i \in DOMAIN effects : effects[i].state = STOPPED)
            => AllBlack(led_calls')]_vars

\* C35, as claimed: an update() tick leaves every Errored effect Errored, and
\* leaves Errored the effect whose update raised in it.
C35_ErroredStaysErrored ==
    [][\A raising \in SUBSET EffectIds :
        (res'.op = "update" /\ UpdateTick("render", raising, "none")) =>
            \A i \in DOMAIN effects :
                (effects[i].state = ERROR \/ effects[i].effect_id \in raising)
                    => effects'[i].state = ERROR]_vars

\* C35, amended: an update() tick does not update an Errored effect (its
\* parameters, start time and iteration count are untouched) and leaves it
\* Errored, unless its is_complete(now) holds in the tick: then the completion
\* check of the tick stops it.
C35_ErroredUntilComplete ==
    [][\A raising \in SUBSET EffectIds :
        (res'.op = "update" /\ UpdateTick("render", raising, "none")) =>
            \A i \in DOMAIN effects :
                effects[i].state = ERROR =>
                    effects'[i] = [effects[i] EXCEPT !.state =
                                      IF is_complete(effects[i], current_time["render"])
                                      THEN STOPPED ELSE ERROR]]_vars

\* C35 witness: a tick that rendered nothing has returned with an Errored heat
\* map in the table that had produced a frame before and is below its cap
C35_Witness ==
    /\ res = Call("update", "", "True")
    /\ led_calls = <<>>
    /\ \E i \in DOMAIN effects :
        /\ effects[i].state = ERROR
        /\ effects[i].kind = "heatmap"
        /\ effects[i].current_iteration > 0
        /\ effects[i].current_iteration < effects[i].max_iterations

\* the frames of the rendered tick that write pixel p
Writers(p) ==
    {i \in DOMAIN rend.frames :
        \E k \in DOMAIN rend.frames[i].indices :
            k <= Len(rend.frames[i].pixels) /\ rend.frames[i].indices[k] = p}

\* the color frame f carries for pixel p
ColorAt(f, p) == f.pixels[CHOOSE k \in DOMAIN f.indices : f.indices[k] = p]

\* C36: a pixel written by exactly one frame of the tick, of brightness 1.0, is
\* sent to the driver with the color that frame carries for it.
C36_SingleFrameExact ==
    rend.op = "render" =>
        \A p \in 0..(NumPixels - 1) :
            \A i \in Writers(p) :
                (Writers(p) = {i} /\ rend.frames[i].brightness = 100)
                    => rend.calls[p + 1].color = ColorAt(rend.frames[i], p)

\* C37: the color sent for a pixel is the same in the tick and in the tick that
\* differs from it only by the absence of a frame that does not write the pixel.
C37_UntouchedPixelIndependent ==
    rend.op = "render" =>
        \A p \in 0..(NumPixels - 1) :
            (\A i \in Writers(p) : rend.frames[i].effect_id # "w")
                => rend.calls[p + 1].color = rend.others[p + 1].color

----------------------------------------------------------------------------
(* Claims about pause() and resume() of one effect *)

\* C38: when a Running effect was paused and is resumed, its elapsed time at
\* the resume is its elapsed time at the pause: the time spent Paused does not
\* count, so the effect is complete after the resume only if it was at the pause.
C38_PausedTimeExcluded ==
    [][(EffResume /\ effect.state = PAUSED /\ eff_res.at_pause >= 0) =>
            /\ wall - effect'.start_time = eff_res.at_pause
            /\ is_complete(effect', wall) =>
                    is_complete(effect, effect.start_time + eff_res.at_pause)]_vars

----------------------------------------------------------------------------
(* Claims about the LED probe and the heartbeat of the HealthMonitor *)

\* C39: when the first of two collect_metrics() calls ran the LED probe and
\* recorded its failure and the second did not run the probe, the status
\* after the second is still Critical.
C39_FailedProbeSticks ==
    (/\ health.res.op = "should_restart"
     /\ Len(health.res.probed) = 2
     /\ Len(health.metrics_history) = 2
     /\ health.res.probed[1] /\ ~health.metrics_history[1].led_responsive
     /\ ~health.res.probed[2])
        => /\ health.res.status = "critical"
           /\ ~health.metrics_history[2].led_responsive

\* C40: a check_health() made more than heartbeat_timeout after the last
\* heartbeat() of the control loop leaves last_heartbeat as it was and
\* returns Critical, and should_restart() is then true.
C40_StaleHeartbeatCritical ==
    [][\A load \in Loads :
        (CheckHealth(load) /\ wall - health.last_heartbeat > HeartbeatTimeout) =>
            /\ health'.last_heartbeat = health.last_heartbeat
            /\ health'.res.status = "critical"
            /\ health'.res.restart]_vars

====
